---------------------------- MODULE Spec2Model ----------------------------
(***************************************************************************)
(* A model of drop, a TFTP (RFC 1350) upload client and daemon.            *)
(*                                                                         *)
(*   src/lib/tftp.c     the packet codec, the client upload loop           *)
(*                      tftp_send_wrq and the per-session receive loop     *)
(*                      tftp_handle_wrq                                    *)
(*   src/src/daemon.c   the daemon: the session table and the receive loop *)
(*                      tftp_transfer / tftp_session_advance               *)
(*                                                                         *)
(* Datagrams are sequences of bytes (0..255), built by the encoders and    *)
(* read by tftp_parse as the code does it.  The program is modelled as     *)
(* built with assertions enabled: its sends and its parsing are written    *)
(* inside assert(), so a build without them does not transfer anything.    *)
(* A failed assertion aborts the process (pc "aborted").                   *)
(*                                                                         *)
(* Three specifications share the variables; each leaves the components it *)
(* does not run switched off ("off"):                                      *)
(*   SpecClient   tftp_send_wrq fed any datagram or the passing of time    *)
(*   SpecServer   tftp_handle_wrq fed any datagram or a receive timeout    *)
(*   SpecDaemon   the daemon's receive loop driven by lockstep peers       *)
(***************************************************************************)
EXTENDS Integers, Sequences, FiniteSets, TLC

(***************************************************************************)
(* Program constants.                                                      *)
(***************************************************************************)
TFTP_BLOCK_SIZE == 512
TFTP_TIMEOUT == 5
TFTP_OPCODE_RRQ == 1
TFTP_OPCODE_WRQ == 2
TFTP_OPCODE_DATA == 3
TFTP_OPCODE_ACK == 4
TFTP_OPCODE_ERROR == 5
TFTP_ERROR_DISK_FULL == 3

\* sizeof(tftp_buffer_t.buffer)
BufferSize == TFTP_BLOCK_SIZE + 4

\* tftp_block_t is uint16_t
U16 == 65536

(***************************************************************************)
(* Bounds of the model.                                                    *)
(***************************************************************************)
\* the client's file holds at most this many full blocks (plus a remainder)
MaxFullBlocks == 2
\* block numbers of the ACKs the network hands to the client: 0..MaxAck
MaxAck == 3
\* waits of TFTP_TIMEOUT seconds the model counts while the client is blocked
MaxWait == 2

Min(a, b) == IF a < b THEN a ELSE b
Last(s) == s[Len(s)]

\* the strings the model uses, as bytes without the terminating NUL
StrNetascii == <<110, 101, 116, 97, 115, 99, 105, 105>>
StrOctet == <<111, 99, 116, 101, 116>>
StrA == <<97>>
StrB == <<98>>

\* the content of a file of L bytes: byte i depends on i and on a seed, with
\* a period that is no divisor of the block size, so that blocks differ
FileBytes(seed, L) == [i \in 1..L |-> (seed + i) % 251]

(***************************************************************************)
(* The codec, src/lib/tftp.c.  An expected_* value is a record with        *)
(* has_value and either the value or the error.                            *)
(***************************************************************************)
Ok(v) == [has_value |-> TRUE, value |-> v]
Err(e) == [has_value |-> FALSE, error |-> e]

\* uint16_bytes with a bug: no htons, the bytes in little-endian host order
uint16_bytes_HostOrder(v) == <<v % 256, (v % U16) \div 256>>

\* htons + memcpy: a uint16_t in network byte order
uint16_bytes(v) == <<(v % U16) \div 256, v % 256>>

\* tftp_buffer_write_data with a bug: the capacity is not checked
tftp_buffer_write_data_NoCheck(writer, data) == Ok(writer \o data)

\* tftp_buffer_write_data: the writer is the bytes written so far; the
\* capacity left is BufferSize minus their number
tftp_buffer_write_data(writer, data) ==
  IF BufferSize - Len(writer) < Len(data)
  THEN Err("EMSGSIZE")
  ELSE Ok(writer \o data)

tftp_buffer_write_uint16_t(writer, value) ==
  tftp_buffer_write_data(writer, uint16_bytes(value))

\* a C string is written with its terminating NUL
tftp_buffer_write_string(writer, value) ==
  tftp_buffer_write_data(writer, value \o <<0>>)

\* the encoders return the datagram (the first `size` bytes of the buffer)
tftp_rrq(in_filename, in_mode) ==
  LET opcode == tftp_buffer_write_uint16_t(<<>>, TFTP_OPCODE_RRQ) IN
  IF ~opcode.has_value THEN opcode ELSE
  LET filename == tftp_buffer_write_string(opcode.value, in_filename) IN
  IF ~filename.has_value THEN filename ELSE
  tftp_buffer_write_string(filename.value, in_mode)

tftp_wrq(in_filename, in_mode) ==
  LET opcode == tftp_buffer_write_uint16_t(<<>>, TFTP_OPCODE_WRQ) IN
  IF ~opcode.has_value THEN opcode ELSE
  LET filename == tftp_buffer_write_string(opcode.value, in_filename) IN
  IF ~filename.has_value THEN filename ELSE
  tftp_buffer_write_string(filename.value, in_mode)

tftp_data(in_block, in_data) ==
  LET opcode == tftp_buffer_write_uint16_t(<<>>, TFTP_OPCODE_DATA) IN
  IF ~opcode.has_value THEN opcode ELSE
  LET block == tftp_buffer_write_uint16_t(opcode.value, in_block) IN
  IF ~block.has_value THEN block ELSE
  tftp_buffer_write_data(block.value, in_data)

tftp_ack(in_block) ==
  LET opcode == tftp_buffer_write_uint16_t(<<>>, TFTP_OPCODE_ACK) IN
  IF ~opcode.has_value THEN opcode ELSE
  tftp_buffer_write_uint16_t(opcode.value, in_block)

tftp_error(code, message) ==
  LET opcode == tftp_buffer_write_uint16_t(<<>>, TFTP_OPCODE_ERROR) IN
  IF ~opcode.has_value THEN opcode ELSE
  LET error == tftp_buffer_write_uint16_t(opcode.value, code) IN
  IF ~error.has_value THEN error ELSE
  tftp_buffer_write_string(error.value, message)

\* A reader is the bytes not yet read (begin..end of the view).
\* tftp_buffer_read_uint16_t: value and the rest of the view
tftp_buffer_read_uint16_t(reader) ==
  IF Len(reader) < 2
  THEN Err("EMSGSIZE")
  ELSE [has_value |-> TRUE, value |-> reader[1] * 256 + reader[2],
        rest |-> SubSeq(reader, 3, Len(reader))]

\* strnlen(string, max): the index of the first NUL, or max
strnlen(reader, from) ==
  LET nuls == {i \in from..Len(reader) : reader[i] = 0} IN
  IF nuls = {} THEN Len(reader)
  ELSE (CHOOSE i \in nuls : \A j \in nuls : i <= j) - 1

\* tftp_buffer_read_string with a bug: a string that runs to the end of the
\* datagram without a NUL is accepted
tftp_buffer_read_string_NoNul(reader) ==
  [has_value |-> TRUE, value |-> SubSeq(reader, 1, strnlen(reader, 1)),
   rest |-> SubSeq(reader, strnlen(reader, 1) + 2, Len(reader))]

\* the string of `length` bytes at the begin of the view, and the rest of the
\* view behind its NUL; EBADMSG when length == max
string_of_length(reader, length) ==
  IF length = Len(reader)
  THEN Err("EBADMSG")
  ELSE [has_value |-> TRUE, value |-> SubSeq(reader, 1, length),
        rest |-> SubSeq(reader, length + 2, Len(reader))]

tftp_buffer_read_string(reader) == string_of_length(reader, strnlen(reader, 1))

\* tftp_read_rrq and tftp_read_wrq: filename, then mode
tftp_read_wrq(reader) ==
  LET filename == tftp_buffer_read_string(reader) IN
  IF ~filename.has_value THEN Err(filename.error) ELSE
  LET mode == tftp_buffer_read_string(filename.rest) IN
  IF ~mode.has_value THEN Err(mode.error) ELSE
  Ok([filename |-> filename.value, mode |-> mode.value])

tftp_read_data(reader) ==
  LET block == tftp_buffer_read_uint16_t(reader) IN
  IF ~block.has_value THEN Err(block.error) ELSE
  Ok([block |-> block.value, data |-> block.rest, size |-> Len(block.rest)])

tftp_read_ack(reader) ==
  LET block == tftp_buffer_read_uint16_t(reader) IN
  IF ~block.has_value THEN Err(block.error) ELSE
  Ok([block |-> block.value])

tftp_read_error(reader) ==
  LET code == tftp_buffer_read_uint16_t(reader) IN
  IF ~code.has_value THEN Err(code.error) ELSE
  LET message == tftp_buffer_read_string(code.rest) IN
  IF ~message.has_value THEN Err(message.error) ELSE
  Ok([code |-> code.value, message |-> message.value])

\* tftp_parse(buffer, size): the packet as [has_value, opcode, value], or the
\* error.  An opcode outside 1..5 reaches __builtin_unreachable(): the result
\* is marked undefined and no input set of the specifications below holds
\* such a datagram.
tftp_parse(buffer) ==
  LET opcode == tftp_buffer_read_uint16_t(buffer) IN
  IF ~opcode.has_value THEN Err(opcode.error) ELSE
  LET body ==
        CASE opcode.value = TFTP_OPCODE_RRQ -> tftp_read_wrq(opcode.rest)
          [] opcode.value = TFTP_OPCODE_WRQ -> tftp_read_wrq(opcode.rest)
          [] opcode.value = TFTP_OPCODE_DATA -> tftp_read_data(opcode.rest)
          [] opcode.value = TFTP_OPCODE_ACK -> tftp_read_ack(opcode.rest)
          [] opcode.value = TFTP_OPCODE_ERROR -> tftp_read_error(opcode.rest)
          [] OTHER -> Err("UNDEFINED")
  IN IF ~body.has_value THEN body
     ELSE [has_value |-> TRUE, opcode |-> opcode.value, value |-> body.value]


\* tftp_recv(socket, buffer, timeout): `ready` is what select() reports (FALSE
\* when the timeout expired with no datagram), `bytes` the datagram recv() reads
tftp_recv(ready, bytes) ==
  IF ~ready THEN Err("ETIMEDOUT") ELSE tftp_parse(bytes)

(***************************************************************************)
(* State.                                                                  *)
(***************************************************************************)
VARIABLES
  \* ---- the client, tftp_send_wrq (src/lib/tftp.c) ----
  cpc,      \* where it is: "off", "init", "recv_ack0" (blocked in the first
            \* tftp_recv), "recv_ack" (blocked in the loop's tftp_recv),
            \* "done" (returned), "aborted" (an assertion failed)
  cname,    \* filename
  cfile,    \* the bytes of the stream `file`
  cpos,     \* the stream's read position
  cblock,   \* packet.value.ack.block of the last packet received
  cbytes,   \* file_bytes of the last fread
  cout,     \* every datagram the client has sent, in order
  crecv,    \* every datagram the client has received, in order
  cwait,    \* seconds spent blocked in the current tftp_recv
  \* ---- the per-session server, tftp_handle_wrq (src/lib/tftp.c) ----
  spc,      \* where it is: "off", "init", "recv_data" (blocked in the loop's
            \* tftp_recv), "returned", "aborted" (an assertion failed)
  sblock,   \* block
  sfile,    \* the bytes written to `file` so far
  sfp,      \* `file`, what fopen returned: "unset" before the call, "null",
            \* "open"
  sin,      \* every datagram the server was given or has received, in order
  sout,     \* every datagram the server has sent, in order
  slog,     \* what the server did, in order: WRQ accepted, block written,
            \* ACK sent
  srecvs,   \* number of datagrams received in the loop
  stimeouts, \* number of receive timeouts in the loop
  \* ---- the daemon, tftp_transfer in a loop (src/src/daemon.c) ----
  dpc,      \* "off", "running", "aborted" (an assertion failed)
  sessions, \* tftp_sessions_list_t: data[0..size-1], each a tftp_session_t
            \* [tid, file, last_block]; size is the length
  capacity, \* tftp_sessions_list_t.capacity
  dfiles,   \* the files of the working directory, by name: whether the file
            \* exists and the bytes written to it
  dlog,     \* per TID, what the daemon did for it, in order
  net,      \* the datagrams waiting in the daemon's socket, with their source
  \* ---- the daemon's peers, one per TID ----
  ppc,      \* "init", "wait" (for the ACK of pblock), "done"
  plen,     \* the length of the file the peer uploads
  pblock,   \* the block the peer awaits the ACK of (0: the WRQ)
  pin,      \* the datagrams on their way to the peer
  pretx,    \* retransmissions so far, all peers
  \* ---- endpoints that are not the peers' ----
  xout,     \* the datagrams the daemon sent to such an endpoint, in order
  xsent,    \* the datagrams such endpoints have sent
  \* ---- the client's supervisor, main of src/src/client.c, and its workers ----
  mpc,      \* "off", "select" (at the top of the while loop), "scan" (in the
            \* for loop over the readable pipes), "returned"
  mchildren, \* children[0..N-1]: the worker each element stands for
  mcount,   \* count
  mreadfds, \* the workers whose pipe select() reported readable
  mn,       \* n of the for loop, counted from 1
  mexit,    \* the exit status of the supervisor, "none" while it runs
  mreaped,  \* per worker, the number of waitpid calls made for it
  meintr,   \* the reads interrupted by a signal so far
  wstat,    \* per worker: "none" (not spawned), "running", "exit0", "exit1",
            \* "killed"; its end of the pipe is closed unless it is running
  \* ---- the codec applied to one input ----
  kpc,      \* "off", "packet" (a packet to encode), "encoded", "buffer" (a
            \* datagram to decode), "parsed"
  kpkt,     \* the packet to encode
  kenc,     \* what the encoder returned
  kbuf,     \* the datagram to decode
  kdec,     \* what tftp_parse returned
  \* ---- the channel between tftp_send_wrq and tftp_handle_wrq ----
  epc,      \* "off" or "on"
  sdeliv,   \* the datagrams delivered to the server's socket, in order
  cdeliv,   \* the datagrams delivered to the client's socket, in order
  c2s,      \* how many of the client's datagrams the channel has dealt with
  s2c,      \* how many of the server's datagrams the channel has dealt with
  efaults,  \* the datagrams dropped or duplicated so far
  \* ---- the session table on its own ----
  tpc,      \* "off", "running", "aborted" (an assertion failed)
  tlist,    \* the tftp_sessions_list_t: data[0..size-1] and capacity
  topen,    \* the FILE handles that are open
  tclosed,  \* the FILE handles the last operation passed to fclose, in order
  tlastop   \* the last operation and its tid

cvars == <<cpc, cname, cfile, cpos, cblock, cbytes, cout, crecv, cwait>>
svars == <<spc, sblock, sfile, sfp, sin, sout, slog, srecvs, stimeouts>>

dvars == <<dpc, sessions, capacity, dfiles, dlog, net, ppc, plen, pblock, pin, pretx,
          xout, xsent>>

mvars == <<mpc, mchildren, mcount, mreadfds, mn, mexit, mreaped, meintr, wstat>>
kvars == <<kpc, kpkt, kenc, kbuf, kdec>>
evars == <<epc, sdeliv, cdeliv, c2s, s2c, efaults>>
tvars == <<tpc, tlist, topen, tclosed, tlastop>>

vars == <<cvars, svars, dvars, mvars, kvars, evars, tvars>>

\* what a client step leaves alone, and what a server step leaves alone
notClient == <<svars, dvars, mvars, kvars, evars, tvars>>
notServer == <<cvars, dvars, mvars, kvars, evars, tvars>>
notDaemon == <<cvars, svars, mvars, kvars, evars, tvars>>

\* the parts of the state a specification does not use stay as they are
SupervisorOff ==
  /\ mpc = "off" /\ mchildren = <<>> /\ mcount = 0 /\ mreadfds = {} /\ mn = 0
  /\ mexit = "none" /\ mreaped = <<>> /\ meintr = 0 /\ wstat = <<>>

CodecOff ==
  /\ kpc = "off" /\ kpkt = <<>> /\ kenc = <<>> /\ kbuf = <<>> /\ kdec = <<>>

ChannelOff ==
  /\ epc = "off" /\ sdeliv = <<>> /\ cdeliv = <<>> /\ c2s = 0 /\ s2c = 0 /\ efaults = 0

TableOff ==
  /\ tpc = "off" /\ tlist = <<>> /\ topen = {} /\ tclosed = <<>> /\ tlastop = <<>>

(***************************************************************************)
(* The client: tftp_send_wrq(socket, filename, file).  One action runs the *)
(* code from one blocking tftp_recv to the next.  send() is taken to       *)
(* succeed.                                                                *)
(***************************************************************************)
FileLengths ==
  {k * TFTP_BLOCK_SIZE + r : k \in 0..MaxFullBlocks, r \in {0, 1, TFTP_BLOCK_SIZE - 1}}

ClientOff ==
  /\ cpc = "off" /\ cname = <<>> /\ cfile = <<>> /\ cpos = 0 /\ cblock = 0
  /\ cbytes = 0 /\ cout = <<>> /\ crecv = <<>> /\ cwait = 0

ClientInit ==
  /\ cpc = "init"
  /\ cname = StrA
  /\ \E L \in FileLengths : cfile = FileBytes(1, L)
  /\ cpos = 0 /\ cblock = 0 /\ cbytes = 0
  /\ cout = <<>> /\ crecv = <<>> /\ cwait = 0

ClientAbort ==
  /\ cpc' = "aborted"
  /\ UNCHANGED <<cname, cfile, cpos, cblock, cbytes, cout>>

\* ClientSendData with a bug: the DATA carries the block number of the ACK
\* just received instead of the next one
ClientSendData_SameBlock(ack_block) ==
  LET file_bytes == Min(TFTP_BLOCK_SIZE, Len(cfile) - cpos)
      file_data == SubSeq(cfile, cpos + 1, cpos + file_bytes)
      data == tftp_data(ack_block % U16, file_data)
  IN IF ~data.has_value
     THEN ClientAbort
     ELSE /\ cpos' = cpos + file_bytes
          /\ cbytes' = file_bytes
          /\ cout' = Append(cout, data.value)
          /\ cpc' = "recv_ack"
          /\ UNCHANGED <<cname, cfile>>

\* the body of the for (;;) loop up to its tftp_recv: fread a block and send it
\* as DATA(packet.value.ack.block + 1), the argument converted to tftp_block_t
ClientSendData(ack_block) ==
  LET file_bytes == Min(TFTP_BLOCK_SIZE, Len(cfile) - cpos)
      file_data == SubSeq(cfile, cpos + 1, cpos + file_bytes)
      data == tftp_data((ack_block + 1) % U16, file_data)
  IN IF ~data.has_value
     THEN ClientAbort
     ELSE /\ cpos' = cpos + file_bytes
          /\ cbytes' = file_bytes
          /\ cout' = Append(cout, data.value)
          /\ cpc' = "recv_ack"
          /\ UNCHANGED <<cname, cfile>>

\* lines 642-652: encode and send the WRQ, then wait for the answer
ClientStart ==
  /\ cpc = "init"
  /\ UNCHANGED notClient
  /\ LET wrq == tftp_wrq(cname, StrNetascii) IN
       IF ~wrq.has_value
       THEN ClientAbort
       ELSE /\ cout' = Append(cout, wrq.value)
            /\ cpc' = "recv_ack0"
            /\ UNCHANGED <<cname, cfile, cpos, cblock, cbytes>>
  /\ cwait' = 0
  /\ UNCHANGED crecv

\* lines 652-663: a datagram arrives in the first tftp_recv
ClientRecvAck0(bytes) ==
  /\ cpc = "recv_ack0"
  /\ UNCHANGED notClient
  /\ crecv' = Append(crecv, bytes)
  /\ cwait' = 0
  /\ LET packet == tftp_recv(TRUE, bytes) IN
       IF ~packet.has_value THEN ClientAbort
       ELSE IF packet.opcode # TFTP_OPCODE_ACK THEN ClientAbort
       ELSE IF packet.value.block # 0 THEN ClientAbort
       ELSE /\ cblock' = packet.value.block
            /\ ClientSendData(packet.value.block)

\* lines 648-653: TFTP_TIMEOUT seconds pass in the first tftp_recv: select()
\* returns 0, tftp_recv returns ETIMEDOUT and assert(packet.has_value) fails
ClientTimeout0 ==
  /\ cpc = "recv_ack0"
  /\ UNCHANGED notClient
  /\ (tftp_recv(FALSE, <<>>)).has_value = FALSE
  /\ cwait' = cwait + TFTP_TIMEOUT
  /\ ClientAbort
  /\ UNCHANGED crecv

\* ClientRecvAck with a bug: a packet that is not an ACK ends the upload as a
\* success
ClientRecvAck_ErrorIsDone(bytes) ==
  /\ cpc = "recv_ack"
  /\ UNCHANGED notClient
  /\ crecv' = Append(crecv, bytes)
  /\ cwait' = 0
  /\ LET packet == tftp_recv(TRUE, bytes) IN
       IF ~packet.has_value THEN ClientAbort
       ELSE IF packet.opcode # TFTP_OPCODE_ACK
       THEN /\ cpc' = "done"
            /\ UNCHANGED <<cname, cfile, cpos, cblock, cbytes, cout>>
       ELSE /\ cblock' = packet.value.block
            /\ IF cbytes < TFTP_BLOCK_SIZE
               THEN /\ cpc' = "done"
                    /\ UNCHANGED <<cname, cfile, cpos, cbytes, cout>>
               ELSE ClientSendData(packet.value.block)

\* lines 663-669: a datagram arrives in the loop's tftp_recv
ClientRecvAck(bytes) ==
  /\ cpc = "recv_ack"
  /\ UNCHANGED notClient
  /\ crecv' = Append(crecv, bytes)
  /\ cwait' = 0
  /\ LET packet == tftp_recv(TRUE, bytes) IN
       IF ~packet.has_value THEN ClientAbort
       ELSE IF packet.opcode # TFTP_OPCODE_ACK THEN ClientAbort
       ELSE /\ cblock' = packet.value.block
            /\ IF cbytes < TFTP_BLOCK_SIZE
               THEN /\ cpc' = "done"
                    /\ UNCHANGED <<cname, cfile, cpos, cbytes, cout>>
               ELSE ClientSendData(packet.value.block)

\* line 663: tftp_recv(socket, &buffer, NULL): select() has no timeout, so
\* while no datagram arrives the client stays blocked and only time passes
ClientWait ==
  /\ cpc = "recv_ack"
  /\ UNCHANGED notClient
  /\ cwait < MaxWait * TFTP_TIMEOUT
  /\ cwait' = cwait + TFTP_TIMEOUT
  /\ UNCHANGED <<cpc, cname, cfile, cpos, cblock, cbytes, cout, crecv>>

\* what the network may hand to the client: the ACKs 0..MaxAck, an ERROR, a
\* DATA, an ACK cut short and a datagram too short to hold an opcode
ClientInputs ==
  {(tftp_ack(k)).value : k \in 0..MaxAck}
    \cup {(tftp_error(TFTP_ERROR_DISK_FULL, StrA)).value,
          (tftp_data(1, <<>>)).value,
          <<0, TFTP_OPCODE_ACK, 0>>,
          <<0>>}

(***************************************************************************)
(* The per-session server: tftp_handle_wrq(socket, buffer, buffer_size).   *)
(* One action runs the code from one blocking tftp_recv to the next.       *)
(***************************************************************************)
\* bounds: the full blocks of the file the peer draws its DATA from, the
\* datagrams and the timeouts the model lets the loop receive
MaxServerBlocks == 2
MaxServerRecv == 3
MaxTimeouts == 2

\* strerror(errno), as bytes
StrError == <<101, 114, 114>>

\* a null pointer
NULL == <<>>

ServerOff ==
  /\ spc = "off" /\ sblock = 0 /\ sfile = <<>> /\ sout = <<>> /\ slog = <<>>
  /\ srecvs = 0 /\ stimeouts = 0 /\ sfp = "unset" /\ sin = <<>>

ServerInit ==
  /\ spc = "init" /\ sblock = 0 /\ sfile = <<>> /\ sout = <<>> /\ slog = <<>>
  /\ srecvs = 0 /\ stimeouts = 0 /\ sfp = "unset" /\ sin = <<>>

ServerAbort ==
  /\ spc' = "aborted"
  /\ UNCHANGED <<sblock, sfile, sout, slog>>

\* tftp_send_ack / tftp_send_error: encode, assert, send
ServerSend(packet, log) ==
  IF ~packet.has_value
  THEN ServerAbort
  ELSE /\ sout' = Append(sout, packet.value)
       /\ slog' = slog \o log

\* HandleWrqStart with a bug: the result of fopen is not looked at
HandleWrqStart_IgnoresFopen(buffer, opened) ==
  /\ spc = "init"
  /\ UNCHANGED notServer
  /\ UNCHANGED <<srecvs, stimeouts>>
  /\ sin' = Append(sin, buffer)
  /\ LET packet == tftp_parse(buffer) IN
       IF ~packet.has_value THEN ServerAbort /\ UNCHANGED sfp
       ELSE IF packet.opcode # TFTP_OPCODE_WRQ THEN ServerAbort /\ UNCHANGED sfp
       ELSE /\ sfp' = (IF opened THEN "open" ELSE "null")
            /\ sblock' = 0
            /\ sfile' = <<>>
            /\ ServerSend(tftp_ack(0),
                          <<[ev |-> "accept", block |-> 0], [ev |-> "ack", block |-> 0]>>)
            /\ spc' = "recv_data"

\* lines 672-687: parse the first datagram, open the file, acknowledge
HandleWrqStart(buffer, opened) ==
  /\ spc = "init"
  /\ UNCHANGED notServer
  /\ UNCHANGED <<srecvs, stimeouts>>
  /\ sin' = Append(sin, buffer)
  /\ LET packet == tftp_parse(buffer) IN
       IF ~packet.has_value THEN ServerAbort /\ UNCHANGED sfp
       ELSE IF packet.opcode # TFTP_OPCODE_WRQ THEN ServerAbort /\ UNCHANGED sfp
       ELSE IF ~opened
       THEN /\ sfp' = "null"
            /\ ServerSend(tftp_error(TFTP_ERROR_DISK_FULL, StrError), <<>>)
            /\ spc' = (IF (tftp_error(TFTP_ERROR_DISK_FULL, StrError)).has_value
                       THEN "returned" ELSE "aborted")
            /\ UNCHANGED <<sblock, sfile>>
       ELSE /\ sfp' = "open"
            /\ sblock' = 0
            /\ sfile' = <<>>
            /\ ServerSend(tftp_ack(0),
                          <<[ev |-> "accept", block |-> 0], [ev |-> "ack", block |-> 0]>>)
            /\ spc' = "recv_data"

\* HandleWrqTimeout with a bug: the timeout is taken for a failure, as the
\* client's assert(packet.has_value) does
HandleWrqTimeout_Fails ==
  /\ spc = "recv_data"
  /\ stimeouts < MaxTimeouts
  /\ UNCHANGED notServer
  /\ ServerAbort
  /\ stimeouts' = stimeouts + 1
  /\ UNCHANGED <<srecvs, sfp, sin>>

\* lines 694-701: the receive timed out: resend the ACK of `block`
HandleWrqTimeout ==
  /\ spc = "recv_data"
  /\ stimeouts < MaxTimeouts
  /\ UNCHANGED notServer
  /\ LET packet == tftp_recv(FALSE, <<>>) IN
       /\ ~packet.has_value
       /\ IF packet.error # "ETIMEDOUT" THEN ServerAbort
          ELSE /\ ServerSend(tftp_ack(sblock), <<[ev |-> "ack", block |-> sblock]>>)
               /\ UNCHANGED <<spc, sblock, sfile>>
  /\ stimeouts' = stimeouts + 1
  /\ UNCHANGED <<srecvs, sfp, sin>>

\* HandleWrqRecv with a bug: the loop is not left after a short payload
HandleWrqRecv_NeverReturns(bytes, written) ==
  /\ spc = "recv_data"
  /\ srecvs < MaxServerRecv
  /\ UNCHANGED notServer
  /\ srecvs' = srecvs + 1
  /\ sin' = Append(sin, bytes)
  /\ UNCHANGED <<stimeouts, sfp>>
  /\ LET packet == tftp_recv(TRUE, bytes) IN
       IF ~packet.has_value THEN ServerAbort
       ELSE IF packet.opcode # TFTP_OPCODE_DATA THEN ServerAbort
       ELSE /\ written \in 0..packet.value.size
            /\ sblock' = packet.value.block
            /\ sfile' = sfile \o SubSeq(packet.value.data, 1, written)
            /\ IF written # packet.value.size
               THEN /\ spc' = "aborted"
                    /\ UNCHANGED <<sout, slog>>
               ELSE /\ ServerSend(tftp_ack(packet.value.block),
                                  <<[ev |-> "write", block |-> packet.value.block],
                                    [ev |-> "ack", block |-> packet.value.block]>>)
                    /\ spc' = "recv_data"

\* lines 694-713: a datagram arrived: it must be a DATA; take its block
\* number, write its payload, acknowledge, and stop after a short payload.
\* `written` is what fwrite returns.
HandleWrqRecv(bytes, written) ==
  /\ spc = "recv_data"
  /\ srecvs < MaxServerRecv
  /\ UNCHANGED notServer
  /\ srecvs' = srecvs + 1
  /\ sin' = Append(sin, bytes)
  /\ UNCHANGED <<stimeouts, sfp>>
  /\ LET packet == tftp_recv(TRUE, bytes) IN
       IF ~packet.has_value THEN ServerAbort         \* packet.error # ETIMEDOUT
       ELSE IF packet.opcode # TFTP_OPCODE_DATA THEN ServerAbort
       ELSE /\ written \in 0..packet.value.size
            /\ sblock' = packet.value.block
            /\ sfile' = sfile \o SubSeq(packet.value.data, 1, written)
            /\ IF written # packet.value.size
               THEN /\ spc' = "aborted"                \* the assertion on fwrite
                    /\ UNCHANGED <<sout, slog>>
               ELSE /\ ServerSend(tftp_ack(packet.value.block),
                                  <<[ev |-> "write", block |-> packet.value.block],
                                    [ev |-> "ack", block |-> packet.value.block]>>)
                    /\ spc' = (IF packet.value.size < TFTP_BLOCK_SIZE
                               THEN "returned" ELSE "recv_data")

\* the file the peer of tftp_handle_wrq uploads: MaxServerBlocks full blocks
\* and one byte
ServerPeerFile == FileBytes(2, MaxServerBlocks * TFTP_BLOCK_SIZE + 1)

\* the first datagram handed to tftp_handle_wrq: a WRQ, a WRQ whose mode lacks
\* the NUL, or an ACK
ServerFirstInputs ==
  {(tftp_wrq(StrA, StrOctet)).value,
   (tftp_wrq(StrB, StrNetascii)).value,
   <<0, TFTP_OPCODE_WRQ>> \o StrA \o <<0>> \o StrOctet,
   (tftp_ack(0)).value}

\* what the peer may send afterwards: any block of its file at any time (in
\* order, again, or out of order), an ACK, or a datagram too short for an opcode
ServerInputs ==
  {(tftp_data(k, SubSeq(ServerPeerFile, TFTP_BLOCK_SIZE * (k - 1) + 1,
                        Min(TFTP_BLOCK_SIZE * k, Len(ServerPeerFile))))).value :
     k \in 1..(MaxServerBlocks + 1)}
    \cup {(tftp_ack(1)).value, <<0>>}

\* fwrite returns the size asked for, or less when the write fails
FwriteResults(bytes) ==
  LET packet == tftp_parse(bytes) IN
  IF packet.has_value /\ packet.opcode = TFTP_OPCODE_DATA
  THEN {packet.value.size} \cup (IF packet.value.size > 0 THEN {0, packet.value.size - 1} ELSE {})
  ELSE {0}

(***************************************************************************)
(* The daemon, src/src/daemon.c: the session table, tftp_session_advance   *)
(* and tftp_transfer.  A datagram's source is its port, the TID; the       *)
(* daemon decodes with tftp_parse and answers with tftp_new_ack, modelled  *)
(* by the codec above.                                                     *)
(***************************************************************************)
\* bounds: the full blocks of a peer's file, and the retransmissions of all
\* peers together
MaxPeerBlocks == 1
MaxRetransmit == 1

\* the peers' ports (their TIDs) and the address they send from
Tids == {40000, 40001}
PeerAddr == "peer"
\* every port a datagram comes from: the peers' and one no peer uses
AllTids == Tids \cup {40002}

\* tftp_session_init: memset, then the tid
tftp_session_init(tid) == [tid |-> tid, file |-> NULL, last_block |-> 0]

\* tftp_sessions_list_find: the index of the first entry with the tid, 0 for NULL
tftp_sessions_list_find(data, tid) ==
  LET hits == {i \in 1..Len(data) : data[i].tid = tid} IN
  IF hits = {} THEN 0 ELSE CHOOSE i \in hits : \A j \in hits : i <= j

\* tftp_sessions_list_push with a bug: a full table grows by one entry
\* instead of doubling
tftp_sessions_list_push_GrowsByOne(list, tid) ==
  LET new_size == Len(list.data) + 1
      grown == IF new_size > list.capacity THEN new_size ELSE list.capacity
  IN [data |-> Append(list.data, tftp_session_init(tid)), capacity |-> grown]

\* tftp_sessions_list_push: grow when full (an empty table gets capacity 1
\* first, then the capacity doubles), then init the entry at data[size++]
tftp_sessions_list_push(list, tid) ==
  LET new_size == Len(list.data) + 1
      grown == IF new_size > list.capacity
               THEN (IF list.capacity = 0 THEN new_size ELSE list.capacity) * 2
               ELSE list.capacity
  IN [data |-> Append(list.data, tftp_session_init(tid)), capacity |-> grown]

\* tftp_sessions_list_pop: for each i < size whose entry has the tid: size -= 1,
\* swap entry i with entry size, finalize (fclose) the entry now at size
RECURSIVE sessions_pop_from(_, _, _)
sessions_pop_from(data, tid, i) ==
  IF i > Len(data) THEN data
  ELSE IF data[i].tid = tid
       THEN sessions_pop_from(SubSeq([data EXCEPT ![i] = data[Len(data)]], 1, Len(data) - 1),
                              tid, i + 1)
       ELSE sessions_pop_from(data, tid, i + 1)

\* tftp_sessions_list_pop with a bug: the size is decremented without the
\* swap, so the last entry is the one dropped
tftp_sessions_list_pop_NoSwap(list, tid) ==
  [data |-> IF tftp_sessions_list_find(list.data, tid) = 0 THEN list.data
            ELSE SubSeq(list.data, 1, Len(list.data) - 1),
   capacity |-> list.capacity]

tftp_sessions_list_pop(list, tid) ==
  [data |-> sessions_pop_from(list.data, tid, 1), capacity |-> list.capacity]

\* fopen(filename, "wb"): the file exists and is empty
Fopen(files, name) == (name :> [exists |-> TRUE, bytes |-> <<>>]) @@ files

\* fwrite(data, 1, size, file) returning `written`
Fwrite(files, name, data, written) ==
  [files EXCEPT ![name].bytes = @ \o SubSeq(data, 1, written)]

\* what tftp_session_advance did: the table, the files, what it did for the
\* tid, the expected_tftp_block_t it returns; aborted when an assertion
\* failed, undefined when __builtin_unreachable() was reached
Advanced(list, files, log, block) ==
  [aborted |-> FALSE, undefined |-> FALSE, list |-> list, files |-> files,
   log |-> log, block |-> block]
AdvanceAborted(list, files) ==
  [aborted |-> TRUE, undefined |-> FALSE, list |-> list, files |-> files,
   log |-> <<>>, block |-> Err("abort")]
AdvanceUndefined(list, files) ==
  [aborted |-> FALSE, undefined |-> TRUE, list |-> list, files |-> files,
   log |-> <<>>, block |-> Err("undefined")]

\* session_advance_data with a bug: no comparison with last_block at all, every
\* DATA is written and acknowledged (the loop body of tftp_handle_wrq)
session_advance_data_AnyBlock(list, files, tid, at, data, written) ==
  LET session == list.data[at] IN
  IF session.file = NULL THEN AdvanceAborted(list, files)
  ELSE LET list2 == [list EXCEPT !.data[at].last_block = data.block]
           files2 == Fwrite(files, session.file, data.data, written)
       IN IF written # data.size
          THEN Advanced(tftp_sessions_list_pop(list2, tid), files2, <<>>,
                        Err(TFTP_ERROR_DISK_FULL))
          ELSE IF written # TFTP_BLOCK_SIZE
          THEN Advanced(tftp_sessions_list_pop(list2, tid), files2,
                        <<[ev |-> "write", block |-> data.block],
                          [ev |-> "end", block |-> data.block]>>,
                        Ok(data.block))
          ELSE Advanced(list2, files2, <<[ev |-> "write", block |-> data.block]>>,
                        Ok(data.block))

\* session_advance_data with a bug: the session is kept after the short final
\* block
session_advance_data_NeverEnds(list, files, tid, at, data, written) ==
  LET session == list.data[at] IN
  IF session.file = NULL THEN AdvanceAborted(list, files)
  ELSE IF data.block = session.last_block
  THEN Advanced(list, files, <<>>, Ok(data.block))
  ELSE IF session.last_block + 1 # data.block THEN AdvanceAborted(list, files)
  ELSE LET list2 == [list EXCEPT !.data[at].last_block = data.block]
           files2 == Fwrite(files, session.file, data.data, written)
       IN IF written # data.size
          THEN Advanced(tftp_sessions_list_pop(list2, tid), files2, <<>>,
                        Err(TFTP_ERROR_DISK_FULL))
          ELSE Advanced(list2, files2, <<[ev |-> "write", block |-> data.block]>>,
                        Ok(data.block))

\* session_advance_data with a bug: a retransmitted block is written again
\* before it is acknowledged
session_advance_data_WritesRetransmit(list, files, tid, at, data, written) ==
  LET session == list.data[at] IN
  IF session.file = NULL THEN AdvanceAborted(list, files)
  ELSE IF data.block # session.last_block /\ session.last_block + 1 # data.block
  THEN AdvanceAborted(list, files)
  ELSE LET list2 == [list EXCEPT !.data[at].last_block = data.block]
           files2 == Fwrite(files, session.file, data.data, written)
       IN IF written # data.size
          THEN Advanced(tftp_sessions_list_pop(list2, tid), files2, <<>>,
                        Err(TFTP_ERROR_DISK_FULL))
          ELSE IF written # TFTP_BLOCK_SIZE
          THEN Advanced(tftp_sessions_list_pop(list2, tid), files2,
                        <<[ev |-> "write", block |-> data.block],
                          [ev |-> "end", block |-> data.block]>>,
                        Ok(data.block))
          ELSE Advanced(list2, files2, <<[ev |-> "write", block |-> data.block]>>,
                        Ok(data.block))

\* lines 262-300: case TFTP_OPCODE_DATA
session_advance_data(list, files, tid, at, data, written) ==
  LET session == list.data[at] IN
  IF session.file = NULL THEN AdvanceAborted(list, files)
  ELSE IF data.block = session.last_block
  THEN Advanced(list, files, <<>>, Ok(data.block))            \* a retransmit
  ELSE IF session.last_block + 1 # data.block THEN AdvanceAborted(list, files)
  ELSE LET list2 == [list EXCEPT !.data[at].last_block = data.block]
           files2 == Fwrite(files, session.file, data.data, written)
       IN IF written # data.size
          THEN Advanced(tftp_sessions_list_pop(list2, tid), files2, <<>>,
                        Err(TFTP_ERROR_DISK_FULL))
          ELSE IF written # TFTP_BLOCK_SIZE
          THEN Advanced(tftp_sessions_list_pop(list2, tid), files2,
                        <<[ev |-> "write", block |-> data.block],
                          [ev |-> "end", block |-> data.block]>>,
                        Ok(data.block))
          ELSE Advanced(list2, files2, <<[ev |-> "write", block |-> data.block]>>,
                        Ok(data.block))

\* lines 248-261: case TFTP_OPCODE_WRQ; `opened` is whether fopen succeeds
session_advance_wrq(list, files, at, wrq, opened) ==
  LET session == list.data[at] IN
  IF session.file # NULL THEN AdvanceAborted(list, files)
  ELSE IF session.last_block # 0 THEN AdvanceAborted(list, files)
  ELSE IF ~opened THEN AdvanceAborted(list, files)
  ELSE Advanced([list EXCEPT !.data[at].file = wrq.filename],
                Fopen(files, wrq.filename),
                <<[ev |-> "accept", block |-> 0]>>, Ok(0))

\* tftp_session_advance(sessions, source, buffer, size)
tftp_session_advance(list, files, tid, bytes, opened, written) ==
  LET packet == tftp_parse(bytes) IN
  IF ~packet.has_value
  THEN IF packet.error = "UNDEFINED" THEN AdvanceUndefined(list, files)
       ELSE AdvanceAborted(list, files)
  ELSE LET found == tftp_sessions_list_find(list.data, tid)
           list1 == IF found = 0 THEN tftp_sessions_list_push(list, tid) ELSE list
           at == IF found = 0 THEN Len(list1.data) ELSE found
       IN CASE packet.opcode = TFTP_OPCODE_WRQ ->
                 session_advance_wrq(list1, files, at, packet.value, opened)
            [] packet.opcode = TFTP_OPCODE_DATA ->
                 session_advance_data(list1, files, tid, at, packet.value, written)
            [] OTHER -> AdvanceUndefined(list1, files)

\* What the build can do once __builtin_unreachable() is reached in
\* tftp_session_advance (an opcode other than WRQ and DATA) or in tftp_parse
\* (an opcode outside 1..5): the process crashes, or the function returns
\* whatever is in the return registers, an expected_tftp_block_t with any
\* has_value and value.
UndefinedOutcomes == {Err("crash")} \cup {Ok(v) : v \in 0..1}

\* tftp_transfer(s, sessions): receive a datagram, advance its session,
\* answer its source address with the ACK; recvfrom and sendto are taken to
\* succeed.  `outcome` is what tftp_session_advance returns when its
\* behaviour is undefined.
tftp_transfer(opened, written, outcome) ==
  /\ dpc = "running"
  /\ net # <<>>
  /\ UNCHANGED notDaemon
  /\ UNCHANGED <<ppc, plen, pblock, pretx, xsent>>
  /\ LET source == Head(net).from
         advanced == tftp_session_advance([data |-> sessions, capacity |-> capacity],
                                          dfiles, source, Head(net).bytes, opened, written)
         block == IF advanced.undefined THEN outcome ELSE advanced.block
         ack == tftp_ack(IF block.has_value THEN block.value ELSE 0)
     IN /\ net' = Tail(net)
        /\ sessions' = advanced.list.data
        /\ capacity' = advanced.list.capacity
        /\ dfiles' = advanced.files
        /\ IF advanced.aborted \/ ~block.has_value \/ ~ack.has_value
           THEN /\ dpc' = "aborted"
                /\ dlog' = [dlog EXCEPT ![source] = @ \o advanced.log]
                /\ UNCHANGED <<pin, xout>>
           ELSE /\ dpc' = "running"
                /\ dlog' = [dlog EXCEPT ![source] =
                              @ \o advanced.log \o <<[ev |-> "ack", block |-> block.value]>>]
                /\ IF Head(net).addr = PeerAddr
                   THEN /\ pin' = [pin EXCEPT ![source] = Append(@, ack.value)]
                        /\ UNCHANGED xout
                   ELSE /\ xout' = Append(xout, [addr |-> Head(net).addr, port |-> source,
                                                 bytes |-> ack.value])
                        /\ UNCHANGED pin

(***************************************************************************)
(* The daemon's peers: each uploads one file in lockstep, as a correct     *)
(* TFTP sender does: WRQ, then DATA(b+1) once ACK(b) has arrived; it may    *)
(* send the DATA it awaits the ACK of again, and ignores any other ACK.    *)
(* Datagrams reach the daemon in the order sent.                           *)
(***************************************************************************)
PeerName(t) == IF t = 40000 THEN StrA ELSE StrB
PeerLengths == {k * TFTP_BLOCK_SIZE + r : k \in 0..MaxPeerBlocks, r \in {0, 1}}
PeerFile(t) == FileBytes(t % 251, plen[t])
PeerChunk(t, k) ==
  SubSeq(PeerFile(t), TFTP_BLOCK_SIZE * (k - 1) + 1, Min(TFTP_BLOCK_SIZE * k, plen[t]))
PeerData(t, k) == (tftp_data(k, PeerChunk(t, k))).value

PeerSendWrq(t) ==
  /\ dpc = "running"
  /\ ppc[t] = "init"
  /\ ppc' = [ppc EXCEPT ![t] = "wait"]
  /\ net' = Append(net, [from |-> t, addr |-> PeerAddr, bytes |-> (tftp_wrq(PeerName(t), StrOctet)).value])
  /\ UNCHANGED <<dpc, sessions, capacity, dfiles, dlog, plen, pblock, pin, pretx>>
  /\ UNCHANGED <<xout, xsent>>
  /\ UNCHANGED notDaemon

PeerRecv(t) ==
  /\ dpc = "running"
  /\ pin[t] # <<>>
  /\ pin' = [pin EXCEPT ![t] = Tail(@)]
  /\ LET packet == tftp_parse(Head(pin[t])) IN
       IF /\ ppc[t] = "wait" /\ packet.has_value /\ packet.opcode = TFTP_OPCODE_ACK
          /\ packet.value.block = pblock[t]
       THEN IF pblock[t] >= 1 /\ Len(PeerChunk(t, pblock[t])) < TFTP_BLOCK_SIZE
            THEN /\ ppc' = [ppc EXCEPT ![t] = "done"]
                 /\ UNCHANGED <<pblock, net>>
            ELSE /\ pblock' = [pblock EXCEPT ![t] = @ + 1]
                 /\ net' = Append(net, [from |-> t, addr |-> PeerAddr, bytes |-> PeerData(t, pblock[t] + 1)])
                 /\ UNCHANGED ppc
       ELSE UNCHANGED <<ppc, pblock, net>>
  /\ UNCHANGED <<dpc, sessions, capacity, dfiles, dlog, plen, pretx, xout, xsent>>
  /\ UNCHANGED notDaemon

PeerRetransmit(t) ==
  /\ dpc = "running"
  /\ ppc[t] = "wait"
  /\ pblock[t] >= 1
  /\ pretx < MaxRetransmit
  /\ pretx' = pretx + 1
  /\ net' = Append(net, [from |-> t, addr |-> PeerAddr, bytes |-> PeerData(t, pblock[t])])
  /\ UNCHANGED <<dpc, sessions, capacity, dfiles, dlog, ppc, plen, pblock, pin>>
  /\ UNCHANGED <<xout, xsent>>
  /\ UNCHANGED notDaemon

DaemonOff ==
  /\ dpc = "off" /\ sessions = <<>> /\ capacity = 0 /\ dfiles = <<>>
  /\ dlog = [t \in AllTids |-> <<>>] /\ net = <<>>
  /\ ppc = [t \in Tids |-> "init"] /\ plen = [t \in Tids |-> 0]
  /\ pblock = [t \in Tids |-> 0] /\ pin = [t \in Tids |-> <<>>] /\ pretx = 0
  /\ xout = <<>> /\ xsent = 0

DaemonInit ==
  /\ dpc = "running" /\ sessions = <<>> /\ capacity = 0 /\ dfiles = <<>>
  /\ dlog = [t \in AllTids |-> <<>>] /\ net = <<>>
  /\ ppc = [t \in Tids |-> "init"] /\ plen \in [Tids -> PeerLengths]
  /\ pblock = [t \in Tids |-> 0] /\ pin = [t \in Tids |-> <<>>] /\ pretx = 0
  /\ xout = <<>> /\ xsent = 0

\* fopen fails or succeeds for a WRQ
FopenResults(bytes) ==
  LET packet == tftp_parse(bytes) IN
  IF packet.has_value /\ packet.opcode = TFTP_OPCODE_WRQ THEN BOOLEAN ELSE {TRUE}

\* one turn of main's for (;;) loop, with what fopen and fwrite return
DaemonReceive ==
  /\ net # <<>>
  /\ \E opened \in FopenResults(Head(net).bytes) :
       \E written \in FwriteResults(Head(net).bytes) :
         \E outcome \in UndefinedOutcomes :
           tftp_transfer(opened, written, outcome)

InitDaemon ==
  DaemonInit /\ ClientOff /\ ServerOff /\ SupervisorOff /\ CodecOff /\ ChannelOff
    /\ TableOff

NextDaemon ==
  \/ \E t \in Tids : PeerSendWrq(t)
  \/ \E t \in Tids : PeerRecv(t)
  \/ \E t \in Tids : PeerRetransmit(t)
  \/ DaemonReceive

SpecDaemon == InitDaemon /\ [][NextDaemon]_vars

(***************************************************************************)
(* Datagrams from endpoints that are not the peers': another host sending  *)
(* from the port of a peer, and a host neither peer has to do with.  The   *)
(* daemon's one socket is bound and not connected, so it receives them     *)
(* all.                                                                    *)
(***************************************************************************)
\* bound: the datagrams such endpoints send, all together
MaxStrange == 1

StrangerAddr == "other"

\* a WRQ whose mode lacks the terminating NUL
MalformedWrq ==
  LET wrq == (tftp_wrq(StrB, StrOctet)).value IN SubSeq(wrq, 1, Len(wrq) - 1)

\* the one byte a stranger's DATA carries differs from every byte of the
\* peers' files
StrangerPayload == <<255>>

\* another host on the port of the first peer sends a DATA; a host on a port
\* with no session sends a malformed WRQ, a DATA or an ACK
StrangerDatagrams ==
  {[from |-> 40000, addr |-> StrangerAddr, bytes |-> (tftp_data(k, StrangerPayload)).value] :
     k \in 1..2}
  \cup {[from |-> 40002, addr |-> StrangerAddr, bytes |-> b] :
          b \in {MalformedWrq, (tftp_data(1, StrangerPayload)).value, (tftp_ack(1)).value}}

StrangerSend(d) ==
  /\ dpc = "running"
  /\ xsent < MaxStrange
  /\ xsent' = xsent + 1
  /\ net' = Append(net, d)
  /\ UNCHANGED <<dpc, sessions, capacity, dfiles, dlog, ppc, plen, pblock, pin, pretx, xout>>
  /\ UNCHANGED notDaemon

\* the peers upload a file of one byte or of one block and one byte
StrangerPeerLengths == {1, TFTP_BLOCK_SIZE + 1}

InitStranger == InitDaemon /\ plen \in [Tids -> StrangerPeerLengths]

NextStranger ==
  \/ \E t \in Tids : PeerSendWrq(t)
  \/ \E t \in Tids : PeerRecv(t)
  \/ DaemonReceive
  \/ \E d \in StrangerDatagrams : StrangerSend(d)

SpecStranger == InitStranger /\ [][NextStranger]_vars

InitClient ==
  ClientInit /\ ServerOff /\ DaemonOff /\ SupervisorOff /\ CodecOff /\ ChannelOff
    /\ TableOff

NextClient ==
  \/ ClientStart
  \/ \E bytes \in ClientInputs : ClientRecvAck0(bytes)
  \/ ClientTimeout0
  \/ \E bytes \in ClientInputs : ClientRecvAck(bytes)
  \/ ClientWait

SpecClient == InitClient /\ [][NextClient]_vars

InitServer ==
  ServerInit /\ ClientOff /\ DaemonOff /\ SupervisorOff /\ CodecOff /\ ChannelOff
    /\ TableOff

NextServer ==
  \/ \E buffer \in ServerFirstInputs, opened \in BOOLEAN : HandleWrqStart(buffer, opened)
  \/ HandleWrqTimeout
  \/ \E bytes \in ServerInputs : \E written \in FwriteResults(bytes) :
       HandleWrqRecv(bytes, written)

SpecServer == InitServer /\ [][NextServer]_vars

(***************************************************************************)
(* The client's supervisor, src/src/client.c: main has spawned one worker  *)
(* per file name (parent_spawn_children) and runs                          *)
(* parent_monitor_children.  A worker holds the only write end of its      *)
(* pipe and never writes to it, so its pipe becomes readable, with         *)
(* end-of-file, exactly when the worker has ended.                         *)
(***************************************************************************)
\* bounds: the workers, and the reads interrupted by a signal
MaxWorkers == 3
MaxEintr == 1

SupervisorInit ==
  \E N \in 1..MaxWorkers :
    /\ mpc = "select"
    /\ mchildren = [i \in 1..N |-> i]
    /\ mcount = N
    /\ mreadfds = {} /\ mn = 0 /\ mexit = "none" /\ meintr = 0
    /\ mreaped = [w \in 1..N |-> 0]
    /\ wstat = [w \in 1..N |-> "running"]

\* child(): the worker ends with exit(EXIT_SUCCESS) after tftp_send_wrq
\* returned, with exit(EXIT_FAILURE) when fopen failed, or killed by a signal
\* (SIGABRT of a failed assertion included)
WorkerEnd(w, status) ==
  /\ w \in DOMAIN wstat
  /\ wstat[w] = "running"
  /\ wstat' = [wstat EXCEPT ![w] = status]
  /\ UNCHANGED <<mpc, mchildren, mcount, mreadfds, mn, mexit, mreaped, meintr>>
  /\ UNCHANGED <<cvars, svars, dvars, kvars, evars, tvars>>

\* lines 277-288: count is not 0: select() with no timeout blocks until a
\* pipe of children[0..count-1] is readable and reports those that are
MonitorSelect ==
  /\ mpc = "select"
  /\ mcount > 0
  /\ LET ready == {mchildren[n] : n \in 1..mcount} \cap {w \in DOMAIN wstat : wstat[w] # "running"}
     IN /\ ready # {}
        /\ mreadfds' = ready
  /\ mn' = 1
  /\ mpc' = "scan"
  /\ UNCHANGED <<mchildren, mcount, mexit, mreaped, meintr, wstat>>
  /\ UNCHANGED <<cvars, svars, dvars, kvars, evars, tvars>>

\* line 277 and lines 138-140: count is 0: parent_monitor_children returns
\* and main returns EXIT_SUCCESS
MonitorReturn ==
  /\ mpc = "select"
  /\ mcount = 0
  /\ mpc' = "returned"
  /\ mexit' = 0
  /\ UNCHANGED <<mchildren, mcount, mreadfds, mn, mreaped, meintr, wstat>>
  /\ UNCHANGED <<cvars, svars, dvars, kvars, evars, tvars>>

\* swap(children + i, children + j, sizeof(child_t))
swap(children, i, j) ==
  [children EXCEPT ![i] = children[j], ![j] = children[i]]

\* MonitorScan with a bug: the child at `back` is cleaned up without the swap
MonitorScan_NoSwap(read_result) ==
  /\ mpc = "scan"
  /\ UNCHANGED <<mreadfds, mexit, wstat>>
  /\ UNCHANGED <<cvars, svars, dvars, kvars, evars, tvars>>
  /\ IF mn > mcount
     THEN /\ mpc' = "select"
          /\ read_result = 0
          /\ UNCHANGED <<mchildren, mcount, mn, mreaped, meintr>>
     ELSE IF mchildren[mn] \notin mreadfds
     THEN /\ mn' = mn + 1
          /\ read_result = 0
          /\ UNCHANGED <<mpc, mchildren, mcount, mreaped, meintr>>
     ELSE IF read_result = -1
     THEN /\ meintr < MaxEintr
          /\ meintr' = meintr + 1
          /\ mpc' = "select"
          /\ UNCHANGED <<mchildren, mcount, mn, mreaped>>
     ELSE /\ mcount' = mcount - 1
          /\ mreaped' = [mreaped EXCEPT ![mchildren[mcount]] = @ + 1]
          /\ mn' = mn + 1
          /\ UNCHANGED <<mpc, mchildren, meintr>>

\* lines 290-310: one turn of the for loop; read_result is what read()
\* returns on a readable pipe: -1 with EINTR, or 0 at end-of-file.  On 0 the
\* child is swapped to the back and parent_cleanup_child closes the pipe and
\* calls waitpid for it.
MonitorScan(read_result) ==
  /\ mpc = "scan"
  /\ UNCHANGED <<mreadfds, mexit, wstat>>
  /\ UNCHANGED <<cvars, svars, dvars, kvars, evars, tvars>>
  /\ IF mn > mcount
     THEN /\ mpc' = "select"
          /\ read_result = 0
          /\ UNCHANGED <<mchildren, mcount, mn, mreaped, meintr>>
     ELSE IF mchildren[mn] \notin mreadfds
     THEN /\ mn' = mn + 1
          /\ read_result = 0
          /\ UNCHANGED <<mpc, mchildren, mcount, mreaped, meintr>>
     ELSE IF read_result = -1
     THEN /\ meintr < MaxEintr
          /\ meintr' = meintr + 1
          /\ mpc' = "select"
          /\ UNCHANGED <<mchildren, mcount, mn, mreaped>>
     ELSE /\ mcount' = mcount - 1
          /\ mchildren' = swap(mchildren, mn, mcount)
          /\ mreaped' = [mreaped EXCEPT ![mchildren[mn]] = @ + 1]
          /\ mn' = mn + 1
          /\ UNCHANGED <<mpc, meintr>>

InitSupervisor ==
  SupervisorInit /\ ClientOff /\ ServerOff /\ DaemonOff /\ CodecOff /\ ChannelOff
    /\ TableOff

NextSupervisor ==
  \/ \E w \in 1..MaxWorkers : \E status \in {"exit0", "exit1", "killed"} : WorkerEnd(w, status)
  \/ MonitorSelect
  \/ \E read_result \in {-1, 0} : MonitorScan(read_result)
  \/ MonitorReturn

SpecSupervisor == InitSupervisor /\ [][NextSupervisor]_vars

(***************************************************************************)
(* The codec of src/lib/tftp.c applied to one input: a packet is encoded   *)
(* and the datagram decoded again, or a datagram is decoded.               *)
(***************************************************************************)
\* bounds: the length of the short strings, and of the short datagrams
MaxStrLen == 2
MaxBufLen == 3

\* all sequences over a set of bytes, up to a length
SeqsUpTo(bytes, n) == UNION {[1..k -> bytes] : k \in 0..n}

\* a string of n bytes, none of them NUL
LongStr(n) == [i \in 1..n |-> 97 + (i % 3)]

\* strings: the short ones, two of which a pair just fits or just does not
\* fit in the buffer, and two that leave no room for anything behind them
CodecStrings ==
  SeqsUpTo({97, 46}, MaxStrLen)
    \cup {LongStr(n) : n \in {BufferSize \div 2 - 2, BufferSize \div 2 - 1,
                              BufferSize - 3, BufferSize - 2}}

CodecBlocks == {0, 1, 255, 256, U16 - 1}

CodecPayloads ==
  {FileBytes(7, n) : n \in {0, 1, TFTP_BLOCK_SIZE - 1, TFTP_BLOCK_SIZE, TFTP_BLOCK_SIZE + 1}}

\* packets as tftp_parse returns them: the opcode and the member of the union
CodecPackets ==
  {[opcode |-> o, value |-> [filename |-> f, mode |-> m]] :
     o \in {TFTP_OPCODE_RRQ, TFTP_OPCODE_WRQ}, f \in CodecStrings, m \in CodecStrings}
  \cup {[opcode |-> TFTP_OPCODE_DATA, value |-> [block |-> b, data |-> d, size |-> Len(d)]] :
          b \in CodecBlocks, d \in CodecPayloads}
  \cup {[opcode |-> TFTP_OPCODE_ACK, value |-> [block |-> b]] : b \in CodecBlocks}
  \cup {[opcode |-> TFTP_OPCODE_ERROR, value |-> [code |-> c, message |-> m]] :
          c \in 0..7, m \in CodecStrings}

\* datagrams: every short one over a few bytes, a WRQ whose mode lacks the
\* NUL, a WRQ followed by more bytes, an ERROR whose message lacks the NUL, a
\* DATA of a full block, and a full-sized datagram with an unknown opcode
CodecBuffers ==
  SeqsUpTo({0, 1, 2, 3, 4, 5, 6, 97}, MaxBufLen)
    \cup {<<0, 2, 97, 46, 116, 120, 116, 0, 111, 99, 116, 101, 116>>,
          <<0, 2, 97, 0, 111, 0, 7, 7>>,
          <<0, 1, 97, 0, 111>>,
          <<0, 5, 0, 3, 101, 114, 114>>,
          <<0, 5, 0, 3, 101, 114, 114, 0>>,
          <<0, 3, 1, 0>> \o FileBytes(7, TFTP_BLOCK_SIZE),
          <<0, 4, 0, 1, 9, 9>>,
          <<0, 9>> \o LongStr(BufferSize - 2)}

\* the encoder of the packet's kind
Encode(packet) ==
  CASE packet.opcode = TFTP_OPCODE_RRQ -> tftp_rrq(packet.value.filename, packet.value.mode)
    [] packet.opcode = TFTP_OPCODE_WRQ -> tftp_wrq(packet.value.filename, packet.value.mode)
    [] packet.opcode = TFTP_OPCODE_DATA -> tftp_data(packet.value.block, packet.value.data)
    [] packet.opcode = TFTP_OPCODE_ACK -> tftp_ack(packet.value.block)
    [] packet.opcode = TFTP_OPCODE_ERROR -> tftp_error(packet.value.code, packet.value.message)

\* What tftp_parse can return.  For an opcode outside 1..5 the switch reaches
\* __builtin_unreachable(): the process crashes, or control lands in one of
\* the five cases, with opcode.value in the packet.
ParseOutcomes(buffer) ==
  LET packet == tftp_parse(buffer) IN
  IF packet.has_value \/ packet.error # "UNDEFINED" THEN {packet}
  ELSE {Err("crash")}
         \cup {LET as == tftp_parse(<<0, o>> \o SubSeq(buffer, 3, Len(buffer)))
               IN IF as.has_value
                  THEN [as EXCEPT !.opcode = buffer[1] * 256 + buffer[2]]
                  ELSE as : o \in 1..5}

CodecInit ==
  /\ kenc = <<>> /\ kdec = <<>>
  /\ \/ kpc = "packet" /\ kpkt \in CodecPackets /\ kbuf = <<>>
     \/ kpc = "buffer" /\ kbuf \in CodecBuffers /\ kpkt = <<>>

CodecEncode ==
  /\ kpc = "packet"
  /\ kenc' = Encode(kpkt)
  /\ kpc' = "encoded"
  /\ UNCHANGED <<kpkt, kbuf, kdec>>
  /\ UNCHANGED <<cvars, svars, dvars, mvars, evars, tvars>>

\* the datagram the encoder returned is decoded
CodecDecode ==
  /\ kpc = "encoded"
  /\ kenc.has_value
  /\ kbuf' = kenc.value
  /\ kdec' \in ParseOutcomes(kenc.value)
  /\ kpc' = "parsed"
  /\ UNCHANGED <<kpkt, kenc>>
  /\ UNCHANGED <<cvars, svars, dvars, mvars, evars, tvars>>

\* a datagram from the network is decoded
CodecParse ==
  /\ kpc = "buffer"
  /\ kdec' \in ParseOutcomes(kbuf)
  /\ kpc' = "parsed"
  /\ UNCHANGED <<kpkt, kenc, kbuf>>
  /\ UNCHANGED <<cvars, svars, dvars, mvars, evars, tvars>>

InitCodec ==
  CodecInit /\ ClientOff /\ ServerOff /\ DaemonOff /\ SupervisorOff /\ ChannelOff
    /\ TableOff

NextCodec ==
  \/ CodecEncode
  \/ CodecDecode
  \/ CodecParse

SpecCodec == InitCodec /\ [][NextCodec]_vars

(***************************************************************************)
(* The client tftp_send_wrq uploading to the daemon, late in a transfer    *)
(* of more than 32 MB: the block numbers are about to pass 65535.  The     *)
(* initial state is the one after FirstBlock - 1 blocks went through in    *)
(* lockstep: the client has sent DATA(FirstBlock) and waits for its ACK,   *)
(* the daemon's session has last_block = FirstBlock - 1.  cfile is the     *)
(* part of the file from that block on, and the daemon's file holds the    *)
(* bytes written since.  fwrite is taken to succeed.                       *)
(***************************************************************************)
\* bound: the full blocks left of the file
MaxWrapBlocks == 2

WrapTid == 40000
WrapFirstBlocks == {U16 - 3, U16 - 2, U16 - 1}
WrapLengths ==
  {k * TFTP_BLOCK_SIZE + r : k \in 0..MaxWrapBlocks, r \in {0, 1, TFTP_BLOCK_SIZE - 1}}

WrapInit ==
  \E first \in WrapFirstBlocks, L \in WrapLengths :
    /\ cpc = "recv_ack" /\ cname = StrA /\ cfile = FileBytes(1, L)
    /\ cbytes = Min(TFTP_BLOCK_SIZE, L) /\ cpos = cbytes
    /\ cblock = first - 1
    /\ cout = <<(tftp_data(first, SubSeq(cfile, 1, cbytes))).value>>
    /\ crecv = <<>> /\ cwait = 0
    /\ dpc = "running"
    /\ sessions = <<[tid |-> WrapTid, file |-> StrA, last_block |-> first - 1]>>
    /\ capacity = 2
    /\ dfiles = Fopen(<<>>, StrA)
    /\ dlog = [t \in AllTids |-> <<>>] /\ net = <<>>
    /\ ppc = [t \in Tids |-> "init"] /\ plen = [t \in Tids |-> 0]
    /\ pblock = [t \in Tids |-> 0] /\ pin = [t \in Tids |-> <<>>] /\ pretx = 0
    /\ xout = <<>> /\ xsent = 0

\* the network hands the client's next datagram to the daemon's socket
WrapDeliver ==
  /\ c2s < Len(cout)
  /\ c2s' = c2s + 1
  /\ net' = Append(net, [from |-> WrapTid, addr |-> PeerAddr, bytes |-> cout[c2s + 1]])
  /\ UNCHANGED <<epc, sdeliv, cdeliv, s2c, efaults>>
  /\ UNCHANGED <<dpc, sessions, capacity, dfiles, dlog, ppc, plen, pblock, pin, pretx>>
  /\ UNCHANGED <<xout, xsent>>
  /\ UNCHANGED <<cvars, svars, mvars, kvars, tvars>>

\* one turn of the daemon's loop; fwrite writes all it is given
WrapDaemonReceive ==
  /\ net # <<>>
  /\ \E written \in {Len(Head(net).bytes) - 4} :
       \E outcome \in UndefinedOutcomes :
         tftp_transfer(TRUE, written, outcome)

\* the daemon's next answer reaches the client, blocked in tftp_recv
WrapClientRecv ==
  /\ Len(crecv) < Len(pin[WrapTid])
  /\ ClientRecvAck(pin[WrapTid][Len(crecv) + 1])

InitWrap ==
  WrapInit /\ ServerOff /\ SupervisorOff /\ CodecOff /\ ChannelOff /\ TableOff

NextWrap ==
  \/ WrapDeliver
  \/ WrapDaemonReceive
  \/ WrapClientRecv

SpecWrap == InitWrap /\ [][NextWrap]_vars

(***************************************************************************)
(* The client tftp_send_wrq uploading to the server tftp_handle_wrq over a *)
(* datagram channel.  cout and sout are what the two have sent; the        *)
(* channel takes the datagrams of each in the order sent and delivers,     *)
(* drops or duplicates each; sdeliv and cdeliv are what has reached the    *)
(* server's and the client's socket.  The server has read the first        *)
(* Len(sin) of sdeliv, the client the first Len(crecv) of cdeliv.  A       *)
(* receive times out only while nothing is there to read.  fopen and       *)
(* fwrite are taken to succeed.                                            *)
(***************************************************************************)
\* bound: the datagrams the channel drops or duplicates
MaxFaults == 1

\* the files whose blocks the server may all receive
ChannelFileLengths ==
  {L \in FileLengths : L \div TFTP_BLOCK_SIZE + 1 <= MaxServerRecv}

ChannelInit ==
  /\ epc = "on" /\ sdeliv = <<>> /\ cdeliv = <<>> /\ c2s = 0 /\ s2c = 0 /\ efaults = 0

\* what becomes of a datagram: how often it arrives
Arrivals(fate, datagram) ==
  CASE fate = "deliver" -> <<datagram>>
    [] fate = "drop" -> <<>>
    [] fate = "duplicate" -> <<datagram, datagram>>

\* the client's next datagram crosses the channel
ChannelToServer(fate) ==
  /\ epc = "on"
  /\ c2s < Len(cout)
  /\ fate # "deliver" => efaults < MaxFaults
  /\ efaults' = (IF fate = "deliver" THEN efaults ELSE efaults + 1)
  /\ c2s' = c2s + 1
  /\ sdeliv' = sdeliv \o Arrivals(fate, cout[c2s + 1])
  /\ UNCHANGED <<epc, cdeliv, s2c>>
  /\ UNCHANGED <<cvars, svars, dvars, mvars, kvars, tvars>>

\* the server's next datagram crosses the channel
ChannelToClient(fate) ==
  /\ epc = "on"
  /\ s2c < Len(sout)
  /\ fate # "deliver" => efaults < MaxFaults
  /\ efaults' = (IF fate = "deliver" THEN efaults ELSE efaults + 1)
  /\ s2c' = s2c + 1
  /\ cdeliv' = cdeliv \o Arrivals(fate, sout[s2c + 1])
  /\ UNCHANGED <<epc, sdeliv, c2s>>
  /\ UNCHANGED <<cvars, svars, dvars, mvars, kvars, tvars>>

\* the client reads the next datagram on its socket
ChannelClientRecv ==
  /\ Len(crecv) < Len(cdeliv)
  /\ \/ ClientRecvAck0(cdeliv[Len(crecv) + 1])
     \/ ClientRecvAck(cdeliv[Len(crecv) + 1])

\* nothing arrives for TFTP_TIMEOUT seconds in the client's first tftp_recv
ChannelClientTimeout ==
  /\ Len(crecv) = Len(cdeliv)
  /\ ClientTimeout0

\* the WRQ reaches the server, which is handed it as its buffer
ChannelServerStart ==
  /\ Len(sin) < Len(sdeliv)
  /\ HandleWrqStart(sdeliv[Len(sin) + 1], TRUE)

\* the server reads the next datagram on its socket
ChannelServerRecv ==
  /\ Len(sin) < Len(sdeliv)
  /\ \E written \in {Len(sdeliv[Len(sin) + 1]) - 4} :
       HandleWrqRecv(sdeliv[Len(sin) + 1], written)

\* nothing arrives for TFTP_TIMEOUT seconds in the server's tftp_recv
ChannelServerTimeout ==
  /\ Len(sin) = Len(sdeliv)
  /\ HandleWrqTimeout

InitLossy ==
  /\ ClientInit /\ Len(cfile) \in ChannelFileLengths
  /\ ServerInit /\ ChannelInit
  /\ DaemonOff /\ SupervisorOff /\ CodecOff /\ TableOff

NextLossy ==
  \/ ClientStart
  \/ \E fate \in {"deliver", "drop", "duplicate"} : ChannelToServer(fate)
  \/ \E fate \in {"deliver", "drop", "duplicate"} : ChannelToClient(fate)
  \/ ChannelClientRecv
  \/ ChannelClientTimeout
  \/ ChannelServerStart
  \/ ChannelServerRecv
  \/ ChannelServerTimeout

SpecLossy == InitLossy /\ [][NextLossy]_vars

(***************************************************************************)
(* The same upload over a reliable channel: every datagram is delivered    *)
(* once, in the order sent, and before the receiver's TFTP_TIMEOUT         *)
(* expires, so that no receive times out.  Client, server and channel each *)
(* take their next step when they have one: a process that can run does    *)
(* run, and a datagram sent is delivered.                                  *)
(***************************************************************************)
NextReliable ==
  \/ ClientStart
  \/ ChannelToServer("deliver")
  \/ ChannelToClient("deliver")
  \/ ChannelClientRecv
  \/ ChannelServerStart
  \/ ChannelServerRecv

SpecReliable == InitLossy /\ [][NextReliable]_vars /\ WF_vars(NextReliable)

(***************************************************************************)
(* The session table of src/src/daemon.c on its own: any sequence of       *)
(* tftp_sessions_list_push and tftp_sessions_list_pop, and of fopen for an *)
(* entry as the WRQ case of tftp_session_advance does it.  realloc is      *)
(* taken to succeed.  When the entry popped is the last one,               *)
(* tftp_session_swap copies an entry onto itself, which leaves it as it    *)
(* is.                                                                     *)
(***************************************************************************)
\* bound: the TIDs 1..MaxTableTids
MaxTableTids == 3

TableTids == 1..MaxTableTids

\* the FILE handle fopen returns for the session of a tid
TableFile(tid) == <<tid>>

\* the handles tftp_sessions_list_pop passes to fclose: tftp_session_finalize
\* is called on the entry swapped to data[size], and closes its file if it
\* has one
RECURSIVE sessions_pop_closed(_, _, _)
sessions_pop_closed(data, tid, i) ==
  IF i > Len(data) THEN <<>>
  ELSE IF data[i].tid = tid
       THEN (IF data[i].file # NULL THEN <<data[i].file>> ELSE <<>>)
            \o sessions_pop_closed(SubSeq([data EXCEPT ![i] = data[Len(data)]], 1, Len(data) - 1),
                                   tid, i + 1)
       ELSE sessions_pop_closed(data, tid, i + 1)

TableInit ==
  /\ tpc = "running"
  /\ tlist = [data |-> <<>>, capacity |-> 0]
  /\ topen = {} /\ tclosed = <<>> /\ tlastop = <<>>

\* tftp_sessions_list_push(sessions, tid); assert(!tftp_sessions_list_find)
TablePush(tid) ==
  /\ tpc = "running"
  /\ tlastop' = [op |-> "push", tid |-> tid]
  /\ tclosed' = <<>>
  /\ IF tftp_sessions_list_find(tlist.data, tid) # 0
     THEN tpc' = "aborted" /\ UNCHANGED tlist
     ELSE tpc' = "running" /\ tlist' = tftp_sessions_list_push(tlist, tid)
  /\ UNCHANGED topen
  /\ UNCHANGED <<cvars, svars, dvars, mvars, kvars, evars>>

\* session->file = fopen(...) for the entry tftp_sessions_list_find returns
TableOpen(tid) ==
  /\ tpc = "running"
  /\ tftp_sessions_list_find(tlist.data, tid) # 0
  /\ tlist.data[tftp_sessions_list_find(tlist.data, tid)].file = NULL
  /\ tlastop' = [op |-> "open", tid |-> tid]
  /\ tclosed' = <<>>
  /\ tlist' = [tlist EXCEPT !.data[tftp_sessions_list_find(tlist.data, tid)].file =
                 TableFile(tid)]
  /\ topen' = topen \cup {TableFile(tid)}
  /\ UNCHANGED tpc
  /\ UNCHANGED <<cvars, svars, dvars, mvars, kvars, evars>>

\* tftp_sessions_list_pop(sessions, tid)
TablePop(tid) ==
  /\ tpc = "running"
  /\ tlastop' = [op |-> "pop", tid |-> tid]
  /\ tlist' = tftp_sessions_list_pop(tlist, tid)
  /\ tclosed' = sessions_pop_closed(tlist.data, tid, 1)
  /\ topen' = topen \ {tclosed'[i] : i \in 1..Len(tclosed')}
  /\ UNCHANGED tpc
  /\ UNCHANGED <<cvars, svars, dvars, mvars, kvars, evars>>

InitTable ==
  /\ TableInit /\ ClientOff /\ ServerOff /\ DaemonOff /\ SupervisorOff /\ CodecOff
  /\ ChannelOff

NextTable ==
  \/ \E tid \in TableTids : TablePush(tid)
  \/ \E tid \in TableTids : TableOpen(tid)
  \/ \E tid \in TableTids : TablePop(tid)

SpecTable == InitTable /\ [][NextTable]_vars

(***************************************************************************)
(* Properties of the client.                                               *)
(***************************************************************************)
\* the wire form of the packets, written out byte by byte
WireWrq(name, mode) == <<0, 2>> \o name \o <<0>> \o mode \o <<0>>
WireData(block, payload) == <<0, 3, block \div 256, block % 256>> \o payload
WireAck(block) == <<0, 4, block \div 256, block % 256>>
IsWireAck(d) == Len(d) >= 4 /\ d[1] = 0 /\ d[2] = 4
IsWireData(d) == Len(d) >= 4 /\ d[1] = 0 /\ d[2] = 3
WireBlock(d) == d[3] * 256 + d[4]
WirePayload(d) == SubSeq(d, 5, Len(d))

\* block k (k >= 1) of a file: its bytes 512(k-1)+1 .. 512k, as far as they exist
Chunk(file, k) ==
  SubSeq(file, TFTP_BLOCK_SIZE * (k - 1) + 1, Min(TFTP_BLOCK_SIZE * k, Len(file)))
BlockCount(file) == Len(file) \div TFTP_BLOCK_SIZE + 1

\* the upload of a file: WRQ, then DATA(1) .. DATA(floor(L/512)+1)
ExpectedUpload(name, file) ==
  [i \in 1..(BlockCount(file) + 1) |->
     IF i = 1 THEN WireWrq(name, StrNetascii)
     ELSE WireData(i - 1, Chunk(file, i - 1))]

\* every datagram received so far was the next ACK of the lockstep exchange:
\* ACK(0), ACK(1), ... in order, none lost, repeated or out of place
AcksInLockstep == \A i \in 1..Len(crecv) : crecv[i] = WireAck(i - 1)

\* C1: over a channel that delivers every datagram in order, the client sends
\* WRQ, waits for ACK(0), and then sends exactly floor(L/512)+1 DATA packets
\* numbered 1, 2, ... in order, each carrying the next 512 bytes of the file,
\* the last one L mod 512 bytes (0 bytes for an empty file or a multiple of
\* 512); it is done exactly when all of them were acknowledged.
C1_UploadInOrder ==
  (cpc # "off" /\ AcksInLockstep) =>
    LET n == BlockCount(cfile)
        expected == ExpectedUpload(cname, cfile)
    IN /\ Len(cout) = (IF cpc = "init" THEN 0 ELSE Min(Len(crecv) + 1, n + 1))
       /\ \A i \in 1..Len(cout) : cout[i] = expected[i]
       /\ \A i \in 2..Len(cout) :
            Len(WirePayload(cout[i])) =
              (IF i - 1 < n THEN TFTP_BLOCK_SIZE ELSE Len(cfile) % TFTP_BLOCK_SIZE)
       /\ (cpc = "done" <=> Len(crecv) = n + 1)

\* C1 witness: a file of exactly two full blocks was uploaded in lockstep and
\* ended with the zero-byte DATA(3)
C1_Witness ==
  /\ cpc = "done" /\ AcksInLockstep
  /\ Len(cfile) = 2 * TFTP_BLOCK_SIZE
  /\ Len(cout) = 4 /\ cout[4] = WireData(3, <<>>)

\* the client is blocked in the loop's tftp_recv and this step hands it an ACK
ClientGetsAck ==
  /\ cpc = "recv_ack"
  /\ Len(crecv') = Len(crecv) + 1
  /\ IsWireAck(Last(crecv'))

\* C6: a client that has sent a full DATA(b) and receives ACK(k), k # b,
\* sends DATA(b) again with the same payload: it reads no further bytes of
\* the file, does not go on to a later block and does not fail.
C6_WrongAckRetransmits ==
  [][(ClientGetsAck /\ cbytes = TFTP_BLOCK_SIZE
        /\ WireBlock(Last(crecv')) # WireBlock(Last(cout)))
       => (cpos' = cpos /\ cout' = Append(cout, Last(cout)) /\ cpc' = "recv_ack")]_vars

\* C7: a client that has sent DATA(b) and receives an ACK for a block ahead
\* of b fails: it sends nothing more and does not finish with success.
C7_AckAheadFails ==
  [][(ClientGetsAck /\ WireBlock(Last(crecv')) > WireBlock(Last(cout)))
       => (cpc' = "aborted" /\ cout' = cout)]_vars

\* C8: whenever the client has sent DATA(b) and TFTP_TIMEOUT seconds pass
\* with no datagram, it sends DATA(b) again and goes on waiting.
C8_TimeoutRetransmits ==
  [][(cpc = "recv_ack" /\ crecv' = crecv /\ cwait' = cwait + TFTP_TIMEOUT)
       => (cout' = Append(cout, Last(cout)) /\ cpc' = "recv_ack")]_vars

\* C9: after the final short DATA(b) the client is done only upon ACK(b).
C9_DoneOnlyOnFinalAck ==
  [][(cpc = "recv_ack" /\ cpc' = "done")
       => (IsWireAck(Last(crecv')) /\ WireBlock(Last(crecv')) = WireBlock(Last(cout)))]_vars

(***************************************************************************)
(* Properties of the per-session server tftp_handle_wrq.                   *)
(***************************************************************************)
Accepted == [ev |-> "accept", block |-> 0]
Written(n) == [ev |-> "write", block |-> n]
Acked(n) == [ev |-> "ack", block |-> n]

\* C2: acknowledgements and writes are in strict lockstep: ACK(0) is sent
\* only after the WRQ was accepted, ACK(n), n >= 1, only after the payload of
\* DATA(n) was written, and the payload of DATA(n+1) is never written before
\* DATA(n) was written and ACK(n) sent.
C2_Lockstep ==
  \A i \in 1..Len(slog) :
    /\ slog[i] = Acked(0) => \E j \in 1..(i - 1) : slog[j] = Accepted
    /\ (slog[i].ev = "ack" /\ slog[i].block >= 1)
         => \E j \in 1..(i - 1) : slog[j] = Written(slog[i].block)
    /\ (slog[i].ev = "write" /\ slog[i].block >= 2)
         => \E j \in 1..(i - 1) : \E k \in (j + 1)..(i - 1) :
              /\ slog[j] = Written(slog[i].block - 1)
              /\ slog[k] = Acked(slog[i].block - 1)

\* C5: in tftp_handle_wrq no block is written to the file twice: a DATA whose
\* block number equals the last written block is not appended, and only
\* ACK(b) is sent again.
C5_NoBlockWrittenTwice ==
  \A i \in 1..Len(slog) : \A j \in (i + 1)..Len(slog) :
    (slog[i].ev = "write" /\ slog[j].ev = "write") => slog[i].block # slog[j].block

\* C10: when the receive of tftp_handle_wrq times out while it awaits DATA
\* after ACK(b), it sends ACK(b) again, writes nothing and stays where it is,
\* however many timeouts came before.
C10_TimeoutResendsAck ==
  [][(spc = "recv_data" /\ stimeouts' # stimeouts)
       => /\ sout' = Append(sout, WireAck(sblock))
          /\ sfile' = sfile /\ sblock' = sblock /\ spc' = "recv_data"
          /\ srecvs' = srecvs]_vars

\* C10 witness: after block 1 was written, MaxTimeouts timeouts in a row were
\* each answered with ACK(1)
C10_Witness ==
  /\ spc = "recv_data" /\ sblock = 1 /\ stimeouts = MaxTimeouts
  /\ Len(sfile) = TFTP_BLOCK_SIZE
  /\ Len(sout) >= MaxTimeouts + 1
  /\ \A i \in (Len(sout) - MaxTimeouts)..Len(sout) : sout[i] = WireAck(1)

(***************************************************************************)
(* Properties of the daemon.                                               *)
(***************************************************************************)
\* the payloads of the peer's DATA(1) .. DATA(k), concatenated in block order
RECURSIVE ConcatChunks(_, _)
ConcatChunks(t, k) ==
  IF k = 0 THEN <<>> ELSE ConcatChunks(t, k - 1) \o PeerChunk(t, k)

\* the daemon ended the session of t: it wrote the short final block and
\* stopped tracking the session
SessionEnded(t) == \E i \in 1..Len(dlog[t]) : dlog[t][i].ev = "end"

\* the blocks the daemon wrote for t, in the order it wrote them
RECURSIVE WrittenBlocks(_)
WrittenBlocks(log) ==
  IF log = <<>> THEN <<>>
  ELSE IF Head(log).ev = "write"
       THEN <<Head(log).block>> \o WrittenBlocks(Tail(log))
       ELSE WrittenBlocks(Tail(log))

AckCount(log, b) == Cardinality({i \in 1..Len(log) : log[i] = Acked(b)})

\* C3: for every session driven by a lockstep peer (which may retransmit the
\* block not yet acknowledged), the bytes of the session's file when the
\* session ends are the DATA payloads concatenated in block order, each
\* block written exactly once and in order.
C3_FileIsConcatenation ==
  \A t \in Tids :
    SessionEnded(t) =>
      /\ PeerName(t) \in DOMAIN dfiles
      /\ dfiles[PeerName(t)].exists
      /\ dfiles[PeerName(t)].bytes = ConcatChunks(t, pblock[t])
      /\ WrittenBlocks(dlog[t]) = [k \in 1..pblock[t] |-> k]
      /\ pblock[t] = plen[t] \div TFTP_BLOCK_SIZE + 1

\* C3 witness: a session of two blocks ended although block 1 arrived twice
C3_Witness ==
  \E t \in Tids :
    /\ SessionEnded(t)
    /\ plen[t] = TFTP_BLOCK_SIZE + 1
    /\ AckCount(dlog[t], 1) = 2
    /\ Len(dfiles[PeerName(t)].bytes) = TFTP_BLOCK_SIZE + 1

\* the daemon takes the next datagram in this step, and it is a DATA of a full
\* block whose number is the last_block of the open session of its source
DaemonGetsRetransmit ==
  /\ dpc = "running" /\ net # <<>> /\ net' = Tail(net)
  /\ IsWireData(Head(net).bytes)
  /\ Len(WirePayload(Head(net).bytes)) = TFTP_BLOCK_SIZE
  /\ \E i \in 1..Len(sessions) :
       /\ sessions[i].tid = Head(net).from
       /\ sessions[i].file # NULL
       /\ sessions[i].last_block = WireBlock(Head(net).bytes)

\* C4: receiving DATA(b) again while the session is open (b is the session's
\* last written block, the payload 512 bytes) writes nothing, leaves
\* last_block as it is and is answered with another ACK(b).
C4_RetransmitNotWritten ==
  [][DaemonGetsRetransmit
       => /\ dfiles' = dfiles
          /\ sessions' = sessions
          /\ dpc' = "running"
          /\ pin' = [pin EXCEPT ![Head(net).from] =
                       Append(@, WireAck(WireBlock(Head(net).bytes)))]
          /\ WrittenBlocks(dlog'[Head(net).from]) = WrittenBlocks(dlog[Head(net).from])]_vars

\* C4 witness: block 1 was written once and acknowledged twice, and the
\* session is still open
C4_Witness ==
  \E t \in Tids : \E i \in 1..Len(sessions) :
    /\ sessions[i].tid = t /\ sessions[i].last_block = 1
    /\ WrittenBlocks(dlog[t]) = <<1>>
    /\ AckCount(dlog[t], 1) = 2
    /\ Len(dfiles[PeerName(t)].bytes) = TFTP_BLOCK_SIZE

\* The lockstep of C2 read on the daemon's record of a session; the daemon
\* keeps it, by its assertion on the block number.
DaemonLockstep ==
  \A t \in Tids : \A i \in 1..Len(dlog[t]) :
    LET log == dlog[t] IN
    /\ log[i] = Acked(0) => \E j \in 1..(i - 1) : log[j] = Accepted
    /\ (log[i].ev = "ack" /\ log[i].block >= 1)
         => \E j \in 1..(i - 1) : log[j] = Written(log[i].block)
    /\ (log[i].ev = "write" /\ log[i].block >= 2)
         => \E j \in 1..(i - 1) : \E k \in (j + 1)..(i - 1) :
              /\ log[j] = Written(log[i].block - 1)
              /\ log[k] = Acked(log[i].block - 1)


(***************************************************************************)
(* The life of a session at the daemon.                                    *)
(***************************************************************************)
\* the table has an entry for the tid, and that entry
InTable(data, t) == tftp_sessions_list_find(data, t) # 0
SessionOf(data, t) == data[tftp_sessions_list_find(data, t)]

\* in this step the daemon takes the next datagram, and it comes from port t
DaemonTakes(t) ==
  /\ dpc = "running" /\ net # <<>> /\ net' = Tail(net)
  /\ Head(net).from = t

\* C11: a session ends exactly when a DATA with a payload shorter than 512
\* bytes (0 bytes included) has been written and the ACK of that block is
\* sent: in a step the daemon survives, a session leaves the table only when
\* a short DATA of its peer is appended to its file and acknowledged, a short
\* DATA that is not a retransmission always ends it so, and a DATA of 512
\* bytes never ends it.
C11_SessionEndsOnShortData ==
  [][\A t \in Tids :
       LET d == Head(net).bytes
           name == SessionOf(sessions, t).file
       IN /\ (InTable(sessions, t) /\ ~InTable(sessions', t) /\ dpc' = "running")
               => /\ DaemonTakes(t)
                  /\ IsWireData(d)
                  /\ Len(WirePayload(d)) < TFTP_BLOCK_SIZE
                  /\ dfiles'[name].bytes = dfiles[name].bytes \o WirePayload(d)
                  /\ pin'[t] = Append(pin[t], WireAck(WireBlock(d)))
          /\ (DaemonTakes(t) /\ InTable(sessions, t) /\ IsWireData(d) /\ dpc' = "running")
               => IF Len(WirePayload(d)) = TFTP_BLOCK_SIZE
                  THEN InTable(sessions', t)
                  ELSE WireBlock(d) # SessionOf(sessions, t).last_block
                         => /\ ~InTable(sessions', t)
                            /\ dfiles'[name].bytes = dfiles[name].bytes \o WirePayload(d)
                            /\ pin'[t] = Append(pin[t], WireAck(WireBlock(d)))]_vars

\* C11 witness: a file of exactly one block: the session was still there
\* after DATA(1) and ended with the empty DATA(2), whose ACK is on its way
C11_Witness ==
  \E t \in Tids :
    /\ dpc = "running"
    /\ plen[t] = TFTP_BLOCK_SIZE
    /\ SessionEnded(t) /\ ~InTable(sessions, t)
    /\ WrittenBlocks(dlog[t]) = <<1, 2>>
    /\ Len(dfiles[PeerName(t)].bytes) = TFTP_BLOCK_SIZE
    /\ pin[t] # <<>> /\ Last(pin[t]) = WireAck(2)

\* The same for tftp_handle_wrq: its loop is left by return exactly after a
\* short payload was written and acknowledged.
HandleWrqLifecycle ==
  [][(spc = "recv_data" /\ srecvs' # srecvs /\ spc' # "aborted")
       => /\ slog' = slog \o <<Written(sblock'), Acked(sblock')>>
          /\ sout' = Append(sout, WireAck(sblock'))
          /\ (spc' = "returned") <=> (Len(sfile') - Len(sfile) < TFTP_BLOCK_SIZE)
          /\ (spc' = "recv_data") <=> (Len(sfile') - Len(sfile) = TFTP_BLOCK_SIZE)]_vars

\* C12: when the peer sends its short final DATA(b) again after the daemon
\* wrote it, acknowledged it and removed the session, no file changes, the
\* peer gets another ACK(b) or nothing, and the daemon keeps serving.
C12_FinalBlockRetransmitHarmless ==
  [][\A t \in Tids :
       (/\ DaemonTakes(t)
        /\ SessionEnded(t) /\ ~InTable(sessions, t)
        /\ Head(net).bytes = PeerData(t, pblock[t]))
         => /\ dfiles' = dfiles
            /\ dpc' = "running"
            /\ \/ pin' = pin
               \/ pin' = [pin EXCEPT ![t] = Append(@, WireAck(pblock[t]))]]_vars

(***************************************************************************)
(* Errors.                                                                 *)
(***************************************************************************)
\* an ERROR datagram with the code
IsWireError(d, code) ==
  Len(d) >= 4 /\ d[1] = 0 /\ d[2] = TFTP_OPCODE_ERROR /\ d[3] = 0 /\ d[4] = code

\* C13: while tftp_handle_wrq awaits DATA after ACK(b), a DATA(k) with k
\* outside {b, b+1}, or a well-formed packet of another opcode, is answered
\* with ERROR(illegal-op, code 4) and ends the session, and its payload is not
\* written to the file.
C13_ViolationGetsIllegalOp ==
  [][(/\ spc = "recv_data" /\ sin' # sin
      /\ LET d == Last(sin') IN
           \/ IsWireAck(d)
           \/ IsWireData(d) /\ WireBlock(d) \notin {sblock, sblock + 1})
       => /\ Len(sout') = Len(sout) + 1
          /\ IsWireError(Last(sout'), 4)
          /\ sfile' = sfile
          /\ spc' = "returned"]_vars

\* C14: when fwrite writes fewer bytes than the payload of a DATA, the daemon
\* sends ERROR(disk-full, code 3) to that peer and no ACK, removes that
\* session from the table, leaves the other sessions as they are and keeps
\* serving.
C14_WriteFailureGetsDiskFull ==
  [][\A t \in Tids :
       LET d == Head(net).bytes
           name == SessionOf(sessions, t).file
       IN (/\ DaemonTakes(t) /\ InTable(sessions, t) /\ IsWireData(d)
           /\ WireBlock(d) = SessionOf(sessions, t).last_block + 1
           /\ Len(dfiles'[name].bytes) - Len(dfiles[name].bytes) < Len(WirePayload(d)))
            => /\ dpc' = "running"
               /\ ~InTable(sessions', t)
               /\ \A u \in Tids \ {t} :
                    /\ InTable(sessions', u) = InTable(sessions, u)
                    /\ InTable(sessions, u) => SessionOf(sessions', u) = SessionOf(sessions, u)
               /\ Len(pin'[t]) = Len(pin[t]) + 1
               /\ IsWireError(Last(pin'[t]), TFTP_ERROR_DISK_FULL)]_vars

\* C15: when tftp_handle_wrq cannot open the file the WRQ names, it sends
\* ERROR(disk-full) and returns: that ERROR is all it ever sends, no ACK(0)
\* among it, it receives no datagram after the WRQ and writes nothing.
C15_OpenFailure ==
  sfp = "null"
    => /\ spc = "returned"
       /\ sout = << <<0, TFTP_OPCODE_ERROR, 0, TFTP_ERROR_DISK_FULL>> \o StrError \o <<0>> >>
       /\ \A i \in 1..Len(sout) : ~IsWireAck(sout[i])
       /\ Len(sin) = 1
       /\ srecvs = 0 /\ stimeouts = 0
       /\ sfile = <<>> /\ slog = <<>>

\* C15 witness: the WRQ was well-formed, fopen failed, the handler returned
C15_Witness ==
  /\ sfp = "null" /\ spc = "returned"
  /\ sin = <<WireWrq(StrA, StrOctet)>>
  /\ IsWireError(Last(sout), TFTP_ERROR_DISK_FULL)

(***************************************************************************)
(* Whose datagram it is.                                                   *)
(***************************************************************************)
\* a well-formed WRQ, as the peers send it
IsPeerWrq(d) == \E t \in Tids : d = WireWrq(PeerName(t), StrOctet)

\* C16: the table gets an entry for a TID only in a step that takes a
\* well-formed WRQ from that TID: a malformed WRQ, or a packet that is not a
\* WRQ, from a TID with no session never creates one.
C16_SessionOnlyByWrq ==
  [][\A t \in AllTids :
       (~InTable(sessions, t) /\ InTable(sessions', t))
         => (DaemonTakes(t) /\ IsPeerWrq(Head(net).bytes))]_vars

\* C17: a datagram from a TID with no session that does not decode, or that
\* decodes to something other than a WRQ, is dropped silently: no reply, the
\* table and the files unchanged, and the loop goes on to the next datagram.
C17_SilentDiscard ==
  [][\A t \in AllTids :
       (DaemonTakes(t) /\ ~InTable(sessions, t) /\ ~IsPeerWrq(Head(net).bytes))
         => /\ sessions' = sessions
            /\ dfiles' = dfiles
            /\ pin' = pin /\ xout' = xout
            /\ dpc' = "running"]_vars

\* C18: once a peer's session is in the table, a datagram from another
\* endpoint, the same port at another address included, is not attributed to
\* it: the session's entry (its last block) and its file stay as they are.
C18_TidPinning ==
  [][\A t \in Tids :
       (/\ DaemonTakes(t) /\ Head(net).addr # PeerAddr
        /\ InTable(sessions, t) /\ SessionOf(sessions, t).file # NULL)
         => /\ InTable(sessions', t)
            /\ SessionOf(sessions', t) = SessionOf(sessions, t)
            /\ dfiles'[SessionOf(sessions, t).file] = dfiles[SessionOf(sessions, t).file]]_vars

\* the bytes of the file a peer names, <<>> while it does not exist
FileOf(files, t) ==
  IF PeerName(t) \in DOMAIN files THEN files[PeerName(t)].bytes ELSE <<>>

IsPrefix(a, b) == Len(a) <= Len(b) /\ a = SubSeq(b, 1, Len(a))

\* C19: two uploads from different TIDs are independent under every
\* interleaving of their datagrams: a step that takes one peer's datagram
\* leaves the other peer's session (tid, file, last block), file and replies
\* as they are, also when it swap-pops the first peer's session; the table
\* changes only in such steps; each file holds only bytes of its own peer's
\* upload; and when both peers are done both files are complete.
C19_SessionsIndependent ==
  /\ [][/\ \A t \in Tids : \A u \in Tids \ {t} :
             DaemonTakes(t)
               => /\ InTable(sessions', u) = InTable(sessions, u)
                  /\ InTable(sessions, u) => SessionOf(sessions', u) = SessionOf(sessions, u)
                  /\ FileOf(dfiles', u) = FileOf(dfiles, u)
                  /\ pin'[u] = pin[u]
        /\ sessions' # sessions => \E t \in Tids : DaemonTakes(t)
        /\ \A t \in Tids :
             (/\ InTable(sessions, t) /\ InTable(sessions', t)
              /\ SessionOf(sessions', t).last_block # SessionOf(sessions, t).last_block)
               => /\ DaemonTakes(t)
                  /\ Head(net).bytes = PeerData(t, SessionOf(sessions', t).last_block)]_vars
  /\ [](\A t \in Tids : IsPrefix(FileOf(dfiles, t), PeerFile(t)))
  /\ []((\A t \in Tids : ppc[t] = "done")
          => \A t \in Tids : /\ PeerName(t) \in DOMAIN dfiles
                             /\ dfiles[PeerName(t)].bytes = PeerFile(t))

\* C19 witness: both sessions were in the table at once; one was swap-popped
\* on its final block, its file complete, while the other is still there
\* with its first block written and nothing else in its file
C19_Witness ==
  \E t \in Tids : \E u \in Tids \ {t} :
    /\ dpc = "running"
    /\ plen[t] = TFTP_BLOCK_SIZE + 1 /\ plen[u] = TFTP_BLOCK_SIZE + 1
    /\ SessionEnded(t) /\ FileOf(dfiles, t) = PeerFile(t)
    /\ sessions = <<[tid |-> u, file |-> PeerName(u), last_block |-> 1]>>
    /\ FileOf(dfiles, u) = PeerChunk(u, 1)
    /\ AckCount(dlog[u], 1) = 1 /\ AckCount(dlog[t], 1) = 1

\* C20: the accept loop hands every accepted WRQ to a worker of its own and
\* itself never processes a DATA of a session: no turn of main's loop on the
\* listening socket takes a DATA from a TID that has a session.
C20_AcceptLoopTakesNoData ==
  [][\A t \in Tids :
       ~(DaemonTakes(t) /\ InTable(sessions, t) /\ IsWireData(Head(net).bytes))]_vars

(***************************************************************************)
(* Properties of the client's supervisor.                                  *)
(***************************************************************************)
\* C21: the client process exits with status 0 if and only if every worker
\* exited with status 0; a worker that exited non-zero or was killed by a
\* signal makes the exit status non-zero.
C21_ExitStatus ==
  mpc = "returned"
    => ((mexit = 0) <=> (\A w \in DOMAIN wstat : wstat[w] = "exit0"))

\* the workers the supervisor still monitors
Monitored == {mchildren[n] : n \in 1..mcount}

\* C22: in whatever order the workers end, each is reaped exactly once and
\* only after it ended; the workers still monitored are exactly those not
\* yet reaped, whatever became of their siblings; and
\* parent_monitor_children leaves its loop (count is 0) exactly when all N
\* are reaped, and has returned only then.
C22_ReapsEachOnce ==
  mpc # "off" =>
    /\ \A w \in DOMAIN wstat :
         /\ mreaped[w] <= 1
         /\ mreaped[w] = 1 => wstat[w] # "running"
    /\ Monitored = {w \in DOMAIN wstat : mreaped[w] = 0}
    /\ (mcount = 0) <=> (\A w \in DOMAIN wstat : mreaped[w] = 1)
    /\ mpc = "returned" => \A w \in DOMAIN wstat : mreaped[w] = 1

\* C22 witness: MaxWorkers workers, one killed, one failed, the others
\* successful, a read interrupted on the way, all reaped and the monitor
\* returned
C22_Witness ==
  /\ mpc = "returned"
  /\ Len(mchildren) = MaxWorkers
  /\ wstat[1] = "killed" /\ wstat[2] = "exit1"
  /\ \A w \in 3..MaxWorkers : wstat[w] = "exit0"
  /\ \A w \in DOMAIN wstat : mreaped[w] = 1
  /\ meintr = MaxEintr

\* C23: when the client receives an ERROR packet while it awaits an ACK, the
\* upload has failed: the failed assertion ends the process (no exit with
\* success status), and no DATA is sent from then on.
C23_ErrorFails ==
  [][/\ (/\ cpc \in {"recv_ack0", "recv_ack"} /\ crecv' # crecv
         /\ \E code \in 0..7 : IsWireError(Last(crecv'), code))
          => (cpc' = "aborted" /\ cout' = cout)
     /\ cpc = "aborted" => (cpc' = "aborted" /\ cout' = cout)]_vars

\* C23 witness: the WRQ and DATA(1) were sent, then an ERROR arrived instead
\* of ACK(1)
C23_Witness ==
  /\ cpc = "aborted"
  /\ Len(cout) = 2 /\ IsWireData(cout[2])
  /\ Len(crecv) = 2 /\ crecv[1] = WireAck(0)
  /\ IsWireError(crecv[2], TFTP_ERROR_DISK_FULL)

(***************************************************************************)
(* Properties of the codec.                                                *)
(***************************************************************************)
\* C24: decoding the datagram the encoder produced for a well-formed packet
\* (RRQ, WRQ, DATA with 0..512 payload bytes, ACK, ERROR) that fits in 516
\* bytes yields that packet: the same opcode, block or code, strings, payload
\* bytes and length.
C24_RoundTrip ==
  (kpc = "parsed" /\ kpkt # <<>>)
    => /\ kdec.has_value
       /\ kdec.opcode = kpkt.opcode
       /\ kdec.value = kpkt.value

\* C24 witness: a DATA with block 256 and a payload of 512 bytes went through
\* the encoder and the decoder
C24_Witness ==
  /\ kpc = "parsed" /\ kpkt # <<>>
  /\ kpkt.opcode = TFTP_OPCODE_DATA
  /\ kpkt.value.block = 256 /\ kpkt.value.size = TFTP_BLOCK_SIZE
  /\ Len(kbuf) = BufferSize
  /\ kdec.has_value /\ kdec.value.size = TFTP_BLOCK_SIZE /\ kdec.value.block = 256

\* the malformed error: EMSGSIZE or EBADMSG in place of a packet
Malformed(result) == ~result.has_value /\ result.error \in {"EMSGSIZE", "EBADMSG"}

\* the result is a packet whose encoding is a prefix of the datagram
DecodesToPrefix(result, buffer) ==
  /\ result.has_value
  /\ result.opcode \in 1..5
  /\ (Encode(result)).has_value
  /\ Len((Encode(result)).value) <= Len(buffer)
  /\ (Encode(result)).value = SubSeq(buffer, 1, Len((Encode(result)).value))

\* C25: tftp_parse is total on datagrams of 0..516 bytes: it returns a packet
\* whose encoding is a prefix of the datagram, or the malformed error; a
\* datagram of fewer than 2 bytes and a datagram whose opcode is not in 1..5
\* give the malformed error.
C25_DecodeTotal ==
  (kpc = "parsed" /\ kpkt = <<>>)
    => /\ Malformed(kdec) \/ DecodesToPrefix(kdec, kbuf)
       /\ Len(kbuf) < 2 => Malformed(kdec)
       /\ (Len(kbuf) >= 2 /\ kbuf[1] * 256 + kbuf[2] \notin 1..5) => Malformed(kdec)

\* The part of C25 that holds: for a datagram with an opcode in 1..5, or too
\* short to hold one, the result is the malformed error or a packet whose
\* encoding is a prefix of the datagram.
DecodeKnownOpcodes ==
  (kpc = "parsed" /\ kpkt = <<>> /\ (Len(kbuf) < 2 \/ kbuf[1] * 256 + kbuf[2] \in 1..5))
    => /\ Malformed(kdec) \/ DecodesToPrefix(kdec, kbuf)
       /\ Len(kbuf) < 2 => Malformed(kdec)

\* the NUL bytes of a sequence
NulCount(bytes) == Cardinality({i \in 1..Len(bytes) : bytes[i] = 0})

\* the datagram is an RRQ or a WRQ with fewer than two NULs after the opcode,
\* or an ERROR with no NUL after the code: a string field has no NUL within
\* the bytes that remain (no bytes at all included)
HasTruncatedString(buffer) ==
  /\ Len(buffer) >= 2 /\ buffer[1] = 0
  /\ \/ /\ buffer[2] \in {TFTP_OPCODE_RRQ, TFTP_OPCODE_WRQ}
        /\ NulCount(SubSeq(buffer, 3, Len(buffer))) < 2
     \/ /\ buffer[2] = TFTP_OPCODE_ERROR
        /\ Len(buffer) >= 4
        /\ NulCount(SubSeq(buffer, 5, Len(buffer))) < 1

\* C26: a datagram in which a string field (filename, mode, message) has no
\* NUL within the remaining bytes decodes to the malformed error and to no
\* packet.
C26_TruncatedStringRejected ==
  (kpc = "parsed" /\ kpkt = <<>> /\ HasTruncatedString(kbuf))
    => (~kdec.has_value /\ kdec.error = "EBADMSG")

\* C26 witness: the WRQ for "a.txt" whose mode "octet" lacks the NUL was
\* rejected
C26_Witness ==
  /\ kpc = "parsed"
  /\ kbuf = <<0, 2, 97, 46, 116, 120, 116, 0, 111, 99, 116, 101, 116>>
  /\ ~kdec.has_value /\ kdec.error = "EBADMSG"

\* the bytes a packet takes on the wire
WireSize(packet) ==
  CASE packet.opcode \in {TFTP_OPCODE_RRQ, TFTP_OPCODE_WRQ} ->
         2 + Len(packet.value.filename) + 1 + Len(packet.value.mode) + 1
    [] packet.opcode = TFTP_OPCODE_DATA -> 4 + Len(packet.value.data)
    [] packet.opcode = TFTP_OPCODE_ACK -> 4
    [] packet.opcode = TFTP_OPCODE_ERROR -> 4 + Len(packet.value.message) + 1

\* C27: an encoder succeeds exactly when every field fits in the 516 bytes
\* of the buffer, and then returns the size of the packet, at most 516; when
\* a field does not fit it returns the oversize error; ACK always encodes to
\* 4 bytes.
C27_EncoderCapacity ==
  kpc = "encoded"
    => /\ WireSize(kpkt) <= BufferSize
            => (kenc.has_value /\ Len(kenc.value) = WireSize(kpkt))
       /\ WireSize(kpkt) > BufferSize
            => (~kenc.has_value /\ kenc.error = "EMSGSIZE")
       /\ kenc.has_value => Len(kenc.value) <= BufferSize
       /\ kpkt.opcode = TFTP_OPCODE_ACK => (kenc.has_value /\ Len(kenc.value) = 4)

\* C27 witness: a DATA with 513 payload bytes was refused, as was a WRQ whose
\* mode no longer fits behind its file name
C27_Witness ==
  /\ kpc = "encoded"
  /\ ~kenc.has_value /\ kenc.error = "EMSGSIZE"
  /\ \/ kpkt.opcode = TFTP_OPCODE_DATA /\ kpkt.value.size = TFTP_BLOCK_SIZE + 1
     \/ /\ kpkt.opcode = TFTP_OPCODE_WRQ
        /\ Len(kpkt.value.filename) = BufferSize - 3 /\ Len(kpkt.value.mode) = 1

(***************************************************************************)
(* Properties of the block numbers past 65535.                             *)
(***************************************************************************)
\* the DATA the daemon has taken from its socket so far
WrapTaken == c2s - Len(net)

\* how often an event with a block number is in a session's log
EventCount(log, ev, b) ==
  Cardinality({i \in 1..Len(log) : log[i].ev = ev /\ log[i].block = b})

\* the client's side of C28: the DATA after DATA(b) is DATA((b + 1) mod 65536)
ClientWraps ==
  \A i \in 2..Len(cout) : WireBlock(cout[i]) = (WireBlock(cout[i - 1]) + 1) % U16

\* C28: block numbers wrap from 65535 to 0 on both sides: the client numbers
\* the DATA after an acknowledged DATA(65535) as block 0, and the daemon takes
\* DATA(0) arriving when its last written block is 65535 as the next block:
\* it writes it once and acknowledges it with ACK(0).
C28_BlockWraps ==
  /\ ClientWraps
  /\ \A i \in 1..WrapTaken :
       (i >= 2 /\ WireBlock(cout[i]) = 0 /\ WireBlock(cout[i - 1]) = U16 - 1)
         => /\ dpc = "running"
            /\ EventCount(dlog[WrapTid], "write", 0) = 1
            /\ EventCount(dlog[WrapTid], "ack", 0) = 1
            /\ pin[WrapTid][i] = WireAck(0)

\* the client has sent DATA(0) after DATA(65535) was acknowledged
WrapHappens ==
  \E i \in 2..Len(cout) :
    /\ WireBlock(cout[i]) = 0 /\ WireBlock(cout[i - 1]) = U16 - 1
    /\ crecv[i - 1] = WireAck(U16 - 1)

(***************************************************************************)
(* Properties of an upload from the client to the server.                  *)
(***************************************************************************)
\* the server has read every datagram the client sent and the channel let
\* through
ServerReadAll == c2s = Len(cout) /\ Len(sin) = Len(sdeliv)

\* C29: over a channel that drops or duplicates datagrams, whenever the
\* client has finished with success, the file the server has written (once it
\* has read all that reached it) is byte for byte the file the client read:
\* no block is missing, written twice or replaced by later content.
C29_IntegrityUnderLoss ==
  (cpc = "done" /\ ServerReadAll) => sfile = cfile

AdvanceOnInput ==
  tftp_session_advance([data |-> sessions, capacity |-> capacity], dfiles,
                       Head(net).from, Head(net).bytes, TRUE,
                       Len(Head(net).bytes) - 4)

\* C31: the daemon's receive loop never aborts on network input: whatever
\* datagram it takes, from whatever TID, no assertion of tftp_session_advance
\* or tftp_transfer fails and no unreachable branch is taken.
C31_NoAbortOnInput ==
  [][\A t \in AllTids :
       DaemonTakes(t)
         => /\ ~AdvanceOnInput.aborted
            /\ ~AdvanceOnInput.undefined
            /\ AdvanceOnInput.block.has_value]_vars

(***************************************************************************)
(* Properties of the session table.                                        *)
(***************************************************************************)
\* the live entries, as a set
LiveEntries(list) == {list.data[i] : i \in 1..Len(list.data)}

\* C32: after any sequence of pushes and pops no two live entries have the
\* same tid and size <= capacity; the capacity never shrinks and changes only
\* by doubling (an empty table of capacity 0 gets 2), in a push that finds
\* the table full; a pop of tid t removes exactly the entry of t and closes
\* only its file, by moving the last entry to its place, every other entry
\* staying where and as it is.
C32_TableInvariant ==
  /\ [](tpc # "off"
         => /\ \A i, j \in 1..Len(tlist.data) :
                 tlist.data[i].tid = tlist.data[j].tid => i = j
            /\ Len(tlist.data) <= tlist.capacity)
  /\ [][tpc = "running"
         => /\ tlist'.capacity >= tlist.capacity
            /\ tlist'.capacity # tlist.capacity
                 => /\ tlastop'.op = "push"
                    /\ Len(tlist.data) = tlist.capacity
                    /\ tlist'.capacity = 2 * (IF tlist.capacity = 0 THEN 1 ELSE tlist.capacity)
            /\ \A t \in TableTids :
                 tlastop' = [op |-> "pop", tid |-> t]
                   => LET i == tftp_sessions_list_find(tlist.data, t)
                          size == Len(tlist.data)
                      IN IF i = 0
                         THEN tlist' = tlist /\ tclosed' = <<>> /\ topen' = topen
                         ELSE /\ Len(tlist'.data) = size - 1
                              /\ LiveEntries(tlist') = LiveEntries(tlist) \ {tlist.data[i]}
                              /\ \A j \in 1..(size - 1) :
                                   tlist'.data[j] = (IF j = i THEN tlist.data[size]
                                                     ELSE tlist.data[j])
                              /\ tclosed' = (IF tlist.data[i].file = NULL THEN <<>>
                                             ELSE <<tlist.data[i].file>>)
                              /\ topen' = topen \ {tlist.data[i].file}]_vars

\* C32 witness: with three open sessions in a table of capacity 4, the pop of
\* the first moved the third to its place and closed the file of the first
C32_Witness ==
  /\ tpc = "running"
  /\ tlastop = [op |-> "pop", tid |-> 1]
  /\ tlist = [data |-> <<[tid |-> 3, file |-> TableFile(3), last_block |-> 0],
                         [tid |-> 2, file |-> TableFile(2), last_block |-> 0]>>,
              capacity |-> 4]
  /\ tclosed = <<TableFile(1)>>
  /\ topen = {TableFile(2), TableFile(3)}
=============================================================================
